---------------------------- MODULE Spec2Model ----------------------------
(***************************************************************************)
(* A model of the template MCP server: the configuration provider          *)
(* (server/config.py), the configuration validator                         *)
(* (server/utils/config_validator.py), plugin discovery and registration   *)
(* (server/server.py, server/utils/import_utils.py, server/mcp_app.py) and  *)
(* the request pipeline (server/server.py,                                 *)
(* server/utils/request_logging.py) and the echo tool                      *)
(* (server/tools/example_tool.py).                                         *)
(*                                                                         *)
(* Python values are tagged tuples, the tag first: <<"none">>,              *)
(* <<"str", chars>>, <<"int", n>>, <<"bool", b>>, <<"dict", f>>,           *)
(* <<"list", seq>>.  A Python string is the sequence of its characters, so  *)
(* that startswith, endswith, slicing and lower() are computed.            *)
(***************************************************************************)
EXTENDS Integers, Sequences, FiniteSets, TLC

VARIABLES
    env,          \* os.environ: variable name -> <<"none">> | <<"str", chars>>
    file,         \* what settings.yaml parses to: <<"ok", tree>> | <<"absent">> | <<"malformed">>
    _config,      \* Config._config
    reloadPc,     \* position of a thread inside Config.reload: "idle" | "loaded"
    observed,     \* what the last Config.get of a reader thread returned
    middleware,   \* app.user_middleware, outermost first
    requests,     \* request id -> the request's state
    log,          \* the log lines written so far (a set of records)
    modules,      \* plugin package -> its modules in iteration order
    discoverPc,   \* position of the discovery loop of server.py
    registry,     \* the FastMCP registry: <<kind, name>> -> owning module
    failure,      \* what start-up raised or refused, if anything
    startPc,      \* position of server.py's module level: "load" | "validate" |
                  \* "discover" | "serving" (uvicorn listens) | "exited"
    report,       \* what validate_config logged: the errors and the warnings
    warned,       \* the variables the last _substitute_env_vars warned about
    toolCall      \* the call of a tool under way: its arguments and its result

vars == <<env, file, _config, reloadPc, observed, middleware, requests, log,
          modules, discoverPc, registry, failure, startPc, report, warned, toolCall>>

-----------------------------------------------------------------------------
(* Python values *)

None == <<"none">>
Str(s) == <<"str", s>>
IntV(n) == <<"int", n>>
BoolV(b) == <<"bool", b>>
DictV(f) == <<"dict", f>>

IsStr(v) == v[1] = "str"

\* Python truth value: `if x`, `not x`, `x or y`
Truthy(v) ==
    CASE v[1] = "none" -> FALSE
      [] v[1] = "bool" -> v[2]
      [] v[1] = "int"  -> v[2] # 0
      [] v[1] = "str"  -> Len(v[2]) > 0
      [] v[1] = "list" -> Len(v[2]) > 0
      [] v[1] = "dict" -> DOMAIN v[2] # {}

\* a or b
PyOr(a, b) == IF Truthy(a) THEN a ELSE b

\* str.startswith / str.endswith on character sequences
startswith(s, p) == Len(s) >= Len(p) /\ SubSeq(s, 1, Len(p)) = p
endswith(s, p) == Len(s) >= Len(p) /\ SubSeq(s, Len(s) - Len(p) + 1, Len(s)) = p

\* str.lower(), one character
LowerChar(c) ==
    CASE c = "T" -> "t" [] c = "R" -> "r" [] c = "U" -> "u" [] c = "E" -> "e"
      [] c = "F" -> "f" [] c = "A" -> "a" [] c = "L" -> "l" [] c = "S" -> "s"
      [] c = "Y" -> "y" [] c = "N" -> "n" [] c = "O" -> "o"
      [] OTHER -> c
lower(s) == [i \in 1..Len(s) |-> LowerChar(s[i])]

\* dict.get(k)
dict_get(d, k) == IF k \in DOMAIN d[2] THEN d[2][k] ELSE None

\* os.getenv(name) and os.getenv(name, default)
getenv(e, name) == IF name \in DOMAIN e THEN e[name] ELSE None
getenv_default(e, name, default) ==
    IF getenv(e, name) = None THEN default ELSE getenv(e, name)

-----------------------------------------------------------------------------
(* server/config.py *)

\* the names of the environment variables and the configuration keys
AUTH_ENABLED == <<"A","U","T","H","_","E","N","A","B","L","E","D">>
AUTH_TOKEN == <<"A","U","T","H","_","T","O","K","E","N">>
MCP_PORT == <<"M","C","P","_","P","O","R","T">>

\* Config._load_config: yaml.safe_load of the file, or the exception it raises
LoadRaises(f) == f[1] # "ok"
LoadException(f) == IF f[1] = "absent" THEN "FileNotFoundError" ELSE "YAMLError"
_load_config(f) == f[2]

\* mutant: a value taken from the environment is expanded again
RECURSIVE substitute_again(_, _)
substitute_again(obj, e) ==
    IF obj[1] = "dict" THEN
        DictV([k \in DOMAIN obj[2] |-> substitute_again(obj[2][k], e)])
    ELSE IF obj[1] = "list" THEN
        <<"list", [i \in 1..Len(obj[2]) |-> substitute_again(obj[2][i], e)]>>
    ELSE IF obj[1] = "str" /\ startswith(obj[2], <<"$", "{">>) /\ endswith(obj[2], <<"}">>) THEN
        LET var_name == SubSeq(obj[2], 3, Len(obj[2]) - 1)
            value == getenv(e, var_name)
        IN  IF value = None THEN obj
            ELSE IF value = obj THEN value
            ELSE substitute_again(value, e)
    ELSE obj

\* the inner function of Config._substitute_env_vars
RECURSIVE substitute(_, _)
substitute(obj, e) ==
    IF obj[1] = "dict" THEN
        DictV([k \in DOMAIN obj[2] |-> substitute(obj[2][k], e)])
    ELSE IF obj[1] = "list" THEN
        <<"list", [i \in 1..Len(obj[2]) |-> substitute(obj[2][i], e)]>>
    ELSE IF obj[1] = "str" /\ startswith(obj[2], <<"$", "{">>) /\ endswith(obj[2], <<"}">>) THEN
        LET var_name == SubSeq(obj[2], 3, Len(obj[2]) - 1)
            value == getenv(e, var_name)
        IN  IF value = None THEN obj ELSE value
    ELSE obj

\* the logger.warning calls of that function: the variables it did not find
RECURSIVE substitute_warnings(_, _)
substitute_warnings(obj, e) ==
    IF obj[1] = "dict" THEN
        UNION {substitute_warnings(obj[2][k], e) : k \in DOMAIN obj[2]}
    ELSE IF obj[1] = "list" THEN
        UNION {substitute_warnings(obj[2][i], e) : i \in 1..Len(obj[2])}
    ELSE IF obj[1] = "str" /\ startswith(obj[2], <<"$", "{">>) /\ endswith(obj[2], <<"}">>) THEN
        LET var_name == SubSeq(obj[2], 3, Len(obj[2]) - 1)
        IN  IF getenv(e, var_name) = None THEN {var_name} ELSE {}
    ELSE {}

\* Config.get, the key already split at the dots
RECURSIVE get_walk(_, _, _)
get_walk(value, keys, default) ==
    IF keys = <<>> THEN value
    ELSE IF value[1] = "dict" THEN
        LET v == dict_get(value, Head(keys))
        IN  IF v = None THEN default ELSE get_walk(v, Tail(keys), default)
    ELSE default

\* mutant: a stored value that is falsy (0, "", False) is taken for a missing one
RECURSIVE get_falsy(_, _, _)
get_falsy(value, keys, default) ==
    IF keys = <<>> THEN value
    ELSE IF value[1] = "dict" THEN
        LET v == dict_get(value, Head(keys))
        IN  IF ~Truthy(v) THEN default ELSE get_falsy(v, Tail(keys), default)
    ELSE default

get(cfg, keys, default) == get_walk(cfg, keys, default)

\* mutant: AUTH_ENABLED is compared as it is written, not lower-cased
is_authentication_enabled_exact(cfg, e) ==
    LET env_enabled == getenv_default(e, AUTH_ENABLED, Str(<<>>))[2]
    IN  IF env_enabled \in {<<"t","r","u","e">>, <<"1">>, <<"y","e","s">>} THEN BoolV(TRUE)
        ELSE IF env_enabled \in {<<"f","a","l","s","e">>, <<"0">>, <<"n","o">>} THEN BoolV(FALSE)
        ELSE get(cfg, <<"security", "authentication", "enabled">>, BoolV(FALSE))

\* Config.is_authentication_enabled
is_authentication_enabled(cfg, e) ==
    LET env_enabled == lower(getenv_default(e, AUTH_ENABLED, Str(<<>>))[2])
    IN  IF env_enabled \in {<<"t","r","u","e">>, <<"1">>, <<"y","e","s">>} THEN BoolV(TRUE)
        ELSE IF env_enabled \in {<<"f","a","l","s","e">>, <<"0">>, <<"n","o">>} THEN BoolV(FALSE)
        ELSE get(cfg, <<"security", "authentication", "enabled">>, BoolV(FALSE))

\* mutant: the token of the file is preferred to the one of the environment
get_auth_token_file_first(cfg, e) ==
    PyOr(get(cfg, <<"security", "authentication", "bearer_token">>, None), getenv(e, AUTH_TOKEN))

\* Config.get_auth_token
get_auth_token(cfg, e) ==
    PyOr(getenv(e, AUTH_TOKEN), get(cfg, <<"security", "authentication", "bearer_token">>, None))

-----------------------------------------------------------------------------
(* server/utils/config_validator.py *)

Digits == <<"0", "1", "2", "3", "4", "5", "6", "7", "8", "9">>
IsDigit(c) == \E i \in 1..10 : Digits[i] = c
DigitValue(c) == (CHOOSE i \in 1..10 : Digits[i] = c) - 1

RECURSIVE lstrip(_)
lstrip(s) == IF s # <<>> /\ Head(s) = " " THEN lstrip(Tail(s)) ELSE s
RECURSIVE rstrip(_)
rstrip(s) == IF s # <<>> /\ s[Len(s)] = " " THEN rstrip(SubSeq(s, 1, Len(s) - 1)) ELSE s

\* the digits of an integer literal: single underscores may separate digits
IsDigitString(s) ==
    /\ s # <<>>
    /\ IsDigit(s[1]) /\ IsDigit(s[Len(s)])
    /\ \A i \in 1..Len(s) : IsDigit(s[i]) \/ (s[i] = "_" /\ IsDigit(s[i + 1]))

RECURSIVE DigitsValue(_, _)
DigitsValue(s, acc) ==
    IF s = <<>> THEN acc
    ELSE IF Head(s) = "_" THEN DigitsValue(Tail(s), acc)
    ELSE DigitsValue(Tail(s), 10 * acc + DigitValue(Head(s)))

\* int(s) of a string: <<"ok", n>>, or <<"ValueError">>
int_of_str(s) ==
    LET t == rstrip(lstrip(s))
        signed == t # <<>> /\ Head(t) \in {"+", "-"}
        body == IF signed THEN Tail(t) ELSE t
    IN  IF ~IsDigitString(body) THEN <<"ValueError">>
        ELSE <<"ok", IF signed /\ Head(t) = "-" THEN 0 - DigitsValue(body, 0)
                     ELSE DigitsValue(body, 0)>>

\* isinstance(v, int): bool is a subclass of int
IsInstanceInt(v) == v[1] \in {"int", "bool"}
IntValue(v) == IF v[1] = "bool" THEN (IF v[2] THEN 1 ELSE 0) ELSE v[2]

MinPort == 1
MaxPort == 65535
DefaultPort == 8000
WeakTokenLen == 16

\* validate_config: the errors and warnings it accumulates, and whether it raises
\* instead (len() of a token that is not a string)
validate_config(cfg, e) ==
    LET port == get(cfg, <<"server", "port">>, IntV(DefaultPort))
        portErr == IF ~IsInstanceInt(port) \/ IntValue(port) < MinPort \/ IntValue(port) > MaxPort
                   THEN {"server.port"} ELSE {}
        mcp_name == get(cfg, <<"mcp", "name">>, None)
        nameErr == IF ~Truthy(mcp_name) \/ ~IsStr(mcp_name) THEN {"mcp.name"} ELSE {}
        enabled == Truthy(is_authentication_enabled(cfg, e))
        token == get_auth_token(cfg, e)
        tokenErr == IF enabled /\ ~Truthy(token) THEN {"AUTH_TOKEN"} ELSE {}
        lenRaises == enabled /\ Truthy(token) /\ token[1] \notin {"str", "list", "dict"}
        tokenWarn == IF enabled /\ Truthy(token) /\ IsStr(token) /\ Len(token[2]) < WeakTokenLen
                     THEN {"weak token"} ELSE {}
        mcp_port_env == getenv(e, MCP_PORT)
        port_val == IF Truthy(mcp_port_env) THEN int_of_str(mcp_port_env[2]) ELSE <<"unset">>
        envErr == IF port_val[1] = "ValueError" THEN {"MCP_PORT not an integer"}
                  ELSE IF port_val[1] = "ok" /\ (port_val[2] < MinPort \/ port_val[2] > MaxPort)
                       THEN {"MCP_PORT out of range"}
                  ELSE {}
    IN  [errors |-> portErr \cup nameErr \cup tokenErr \cup envErr,
         warnings |-> tokenWarn,
         raises |-> lenRaises]

\* validate_config returns: no error, nothing raised
ValidationPasses(cfg, e) ==
    validate_config(cfg, e).errors = {} /\ ~validate_config(cfg, e).raises

-----------------------------------------------------------------------------
(* The inputs of the model *)

\* how many requests are handled at the same time
MaxInFlight == 1

RequestIds == 1..MaxInFlight

\* tokens: the one the file configures and the one the environment sets
TokFile == <<"f", "1">>
TokEnv == <<"e", "2">>

Bearer == <<"B", "e", "a", "r", "e", "r", " ">>

\* the Authorization header of a request: absent, or a string
Headers ==
    { None,
      Str(<<>>),
      Str(<<"b", "e", "a", "r", "e", "r", " ">> \o TokFile),
      Str(Bearer \o TokFile),
      Str(Bearer \o TokEnv) }

Paths == {"/healthz", "/health", "/version", "/_info", "/health/deep", "/mcp"}

\* str(uuid.uuid4()): 36 characters, 8-4-4-4-12
Uuid(c) == [i \in 1..36 |-> IF i \in {9, 14, 19, 24} THEN "-" ELSE c]
HexDigits == <<"a", "b", "c", "d", "e", "f">>
\* uuid4 draws a fresh identifier for each request in flight
Uuids(r) == {Uuid(HexDigits[r])}

\* settings.yaml as yaml.safe_load returns it
Tree(enabled, token) ==
    DictV([k \in {"server", "mcp", "security"} |->
        CASE k = "server" -> DictV([j \in {"port"} |-> IntV(8000)])
          [] k = "mcp" -> DictV([j \in {"name"} |-> Str(<<"m">>)])
          [] k = "security" ->
                DictV([j \in {"authentication"} |->
                    DictV([i \in {"enabled", "bearer_token"} |->
                        IF i = "enabled" THEN enabled ELSE token])])])

Placeholder(name) == Str(<<"$", "{">> \o name \o <<"}">>)

-----------------------------------------------------------------------------
(* server/server.py: the middleware stack *)

\* Starlette.add_middleware inserts at the front of user_middleware: the
\* middleware added last is the outermost
add_middleware(stack, m) == <<m>> \o stack

\* mutant: the authentication middleware is added after the logging middleware
BuildMiddleware_auth_last(cfg, e) ==
    LET s1 == <<"logging">>
        s2 == IF Truthy(is_authentication_enabled(cfg, e))
              THEN <<"auth">> \o s1 ELSE s1
    IN  <<"cors", "hostname">> \o s2

\* mutant: the middleware are installed in the order of the calls, the first
\* added outermost
BuildMiddleware_call_order(cfg, e) ==
    (IF Truthy(is_authentication_enabled(cfg, e)) THEN <<"auth">> ELSE <<>>)
        \o <<"logging", "hostname", "cors">>

\* mutant: the authentication middleware is added whatever the flag reads
BuildMiddleware_always(cfg, e) ==
    <<"cors", "hostname", "logging", "auth">>

\* the add_middleware calls of server.py, in the order they are made
BuildMiddleware(cfg, e) ==
    LET s1 == IF Truthy(is_authentication_enabled(cfg, e))
              THEN add_middleware(<<>>, "auth") ELSE <<>>
        s2 == add_middleware(s1, "logging")
        s3 == add_middleware(s2, "hostname")
    IN  add_middleware(s3, "cors")

\* the stages a request passes, outermost first: the middleware, then the router
Chain == middleware \o <<"router">>

NoResponse == [status |-> 0, headers |-> {}, body |-> ""]
Response(status, body) == [status |-> status, headers |-> {}, body |-> body]
WithHeader(resp, name, value) == [resp EXCEPT !.headers = @ \cup {<<name, value>>}]
HeaderNames(resp) == {h[1] : h \in resp.headers}

IdleRequest ==
    [pc |-> "idle", pos |-> 0, dir |-> "down", path |-> "", preflight |-> FALSE,
     auth |-> None, raises |-> FALSE, cid |-> None, resp |-> NoResponse, trace |-> <<>>]

StageOf(r) == Chain[requests[r].pos]
At(r, stage, dir) ==
    /\ requests[r].pc = "run"
    /\ requests[r].pos \in 1..Len(Chain)
    /\ StageOf(r) = stage
    /\ requests[r].dir = dir

\* the stage hands the request to the next inner stage (await call_next)
CallNext(req, stage) ==
    [req EXCEPT !.pos = @ + 1, !.dir = "down", !.trace = Append(@, <<stage, "request">>)]
\* the stage returns a response to the stage that called it
Return(req, stage, resp) ==
    [req EXCEPT !.pos = @ - 1, !.dir = "up", !.resp = resp,
                !.trace = Append(@, <<stage, "response">>)]
\* an exception leaves the stage
Raise(req, stage) ==
    [req EXCEPT !.pos = @ - 1, !.dir = "raise", !.resp = NoResponse,
                !.trace = Append(@, <<stage, "exception">>)]

PipelineUnchanged == UNCHANGED <<env, file, _config, reloadPc, observed, middleware,
                                 modules, discoverPc, registry, failure, startPc,
                                 report, warned, toolCall>>

\* a request reaches the application: uvicorn.run(app, ...) is listening
Arrive(r) ==
    /\ startPc = "serving"
    /\ requests[r].pc = "idle"
    /\ \E path \in Paths, preflight \in BOOLEAN :
         \E auth \in (IF preflight THEN {None} ELSE Headers),
            raises \in (IF path = "/mcp" /\ ~preflight THEN BOOLEAN ELSE {FALSE}) :
            requests' = [requests EXCEPT ![r] =
                [IdleRequest EXCEPT !.pc = "run", !.pos = 1, !.path = path,
                                    !.auth = auth, !.preflight = preflight,
                                    !.raises = raises]]
    /\ log' = [log EXCEPT ![r] = <<>>]
    /\ PipelineUnchanged

\* CORSMiddleware(allow_origins=["*"], ...): a preflight request is answered by
\* the middleware itself, any other request is passed on
CorsDispatch(r) ==
    /\ At(r, "cors", "down")
    /\ requests' = [requests EXCEPT ![r] =
            IF @.preflight
            THEN Return(@, "cors",
                        WithHeader(Response(200, "OK"), "Access-Control-Allow-Origin", "*"))
            ELSE CallNext(@, "cors")]
    /\ UNCHANGED log
    /\ PipelineUnchanged

CorsReturn(r) ==
    /\ At(r, "cors", "up")
    /\ requests' = [requests EXCEPT ![r] = Return(@, "cors", @.resp)]
    /\ UNCHANGED log
    /\ PipelineUnchanged

\* HostnameHeaderMiddleware.dispatch, up to `await call_next(request)`
HostnameDispatch(r) ==
    /\ At(r, "hostname", "down")
    /\ requests' = [requests EXCEPT ![r] = CallNext(@, "hostname")]
    /\ UNCHANGED log
    /\ PipelineUnchanged

\* HostnameHeaderMiddleware.dispatch, after call_next returned a response
HostnameReturn(r) ==
    /\ At(r, "hostname", "up")
    /\ requests' = [requests EXCEPT ![r] =
            Return(@, "hostname", WithHeader(@.resp, "X-Served-By", "hostname"))]
    /\ UNCHANGED log
    /\ PipelineUnchanged

\* the paths RequestLoggingMiddleware does not log
LogSkipPaths == {"/healthz", "/health"}

\* correlation_id = str(uuid.uuid4())[:8]
CorrelationIdLen == 8
correlation_id(uuid) == SubSeq(uuid, 1, CorrelationIdLen)

LogLine(cid, level, event, path) ==
    [cid |-> cid, level |-> level, event |-> event, path |-> path]

\* the level of the completion line
CompletionLevel(status) ==
    IF status >= 500 THEN "error" ELSE IF status >= 400 THEN "warning" ELSE "info"

\* RequestLoggingMiddleware.dispatch, up to `await call_next(request)`
LoggingDispatch(r) ==
    /\ At(r, "logging", "down")
    /\ \E uuid \in Uuids(r) :
         LET cid == correlation_id(uuid)
         IN  /\ requests' = [requests EXCEPT ![r] =
                    CallNext([@ EXCEPT !.cid = Str(cid)], "logging")]
             /\ log' = [log EXCEPT ![r] =
                    IF requests[r].path \in LogSkipPaths THEN @
                    ELSE Append(@, LogLine(cid, "info", "start", requests[r].path))]
    /\ PipelineUnchanged

\* mutant: the correlation ID is kept on the middleware, which the requests
\* share: the one that entered the stage last has overwritten it
LoggingReturn_shared(r) ==
    /\ At(r, "logging", "up")
    /\ LET req == requests[r]
           last == CHOOSE q \in DOMAIN requests :
                      /\ requests[q].cid # None
                      /\ \A p \in DOMAIN requests : requests[p].cid # None => p <= q
           cid == requests[last].cid[2]
       IN  IF req.path \in LogSkipPaths
           THEN /\ requests' = [requests EXCEPT ![r] = Return(@, "logging", @.resp)]
                /\ UNCHANGED log
           ELSE /\ log' = [log EXCEPT ![r] =
                       Append(@, LogLine(cid, CompletionLevel(req.resp.status),
                                         "complete", req.path))]
                /\ requests' = [requests EXCEPT ![r] =
                       Return(@, "logging", WithHeader(@.resp, "X-Correlation-ID", cid))]
    /\ PipelineUnchanged

\* RequestLoggingMiddleware.dispatch, after call_next returned a response
LoggingReturn(r) ==
    /\ At(r, "logging", "up")
    /\ LET req == requests[r]
           cid == req.cid[2]
       IN  IF req.path \in LogSkipPaths
           THEN /\ requests' = [requests EXCEPT ![r] = Return(@, "logging", @.resp)]
                /\ UNCHANGED log
           ELSE /\ log' = [log EXCEPT ![r] =
                       Append(@, LogLine(cid, CompletionLevel(req.resp.status),
                                         "complete", req.path))]
                /\ requests' = [requests EXCEPT ![r] =
                       Return(@, "logging", WithHeader(@.resp, "X-Correlation-ID", cid))]
    /\ PipelineUnchanged

\* mutant: the exception is logged and answered with a 500 of the stage's own
LoggingExcept_swallow(r) ==
    /\ At(r, "logging", "raise")
    /\ log' = [log EXCEPT ![r] =
            IF requests[r].path \in LogSkipPaths THEN @
            ELSE Append(@, LogLine(requests[r].cid[2], "error", "exception", requests[r].path))]
    /\ requests' = [requests EXCEPT ![r] =
            Return(@, "logging", Response(500, "Internal Server Error"))]
    /\ PipelineUnchanged

\* RequestLoggingMiddleware.dispatch, when call_next raised
LoggingExcept(r) ==
    /\ At(r, "logging", "raise")
    /\ log' = [log EXCEPT ![r] =
            IF requests[r].path \in LogSkipPaths THEN @
            ELSE Append(@, LogLine(requests[r].cid[2], "error", "exception", requests[r].path))]
    /\ requests' = [requests EXCEPT ![r] = Raise(@, "logging")]
    /\ PipelineUnchanged

\* the paths AuthenticationMiddleware lets through unchecked
AuthSkipPaths == {"/healthz", "/health", "/version", "/_info"}

\* auth_header[7:] removes the "Bearer " prefix
BearerPrefixLen == 7

Forward == [forward |-> TRUE, status |-> 0, body |-> ""]
Reject(status, body) == [forward |-> FALSE, status |-> status, body |-> body]

\* mutant: the token after the prefix is not compared with the expected one
authenticate_any_token(path, auth_header, cfg, e) ==
    IF path \in AuthSkipPaths THEN Forward
    ELSE IF ~Truthy(is_authentication_enabled(cfg, e)) THEN Forward
    ELSE IF ~Truthy(auth_header) THEN
        Reject(401, "Missing Authorization header")
    ELSE IF ~startswith(auth_header[2], Bearer) THEN
        Reject(401, "Invalid Authorization header format. Use: Bearer <token>")
    ELSE Forward

\* mutant: a wrong token is answered 401 like the other rejections
authenticate_wrong_status(path, auth_header, cfg, e) ==
    LET d == authenticate_any_token(path, auth_header, cfg, e)
    IN  IF d.forward /\ path \notin AuthSkipPaths
           /\ Truthy(is_authentication_enabled(cfg, e))
           /\ Str(SubSeq(auth_header[2], BearerPrefixLen + 1, Len(auth_header[2])))
                # get_auth_token(cfg, e)
        THEN Reject(401, "Invalid authentication token")
        ELSE d

\* mutant: the allow-list misses /_info
authenticate_short_list(path, auth_header, cfg, e) ==
    IF path \in {"/healthz", "/health", "/version"} THEN Forward
    ELSE IF ~Truthy(is_authentication_enabled(cfg, e)) THEN Forward
    ELSE IF ~Truthy(auth_header) THEN
        Reject(401, "Missing Authorization header")
    ELSE IF ~startswith(auth_header[2], Bearer) THEN
        Reject(401, "Invalid Authorization header format. Use: Bearer <token>")
    ELSE IF Str(SubSeq(auth_header[2], BearerPrefixLen + 1, Len(auth_header[2])))
                # get_auth_token(cfg, e)
        THEN Reject(403, "Invalid authentication token")
    ELSE Forward

\* what AuthenticationMiddleware.dispatch decides for a request
authenticate(path, auth_header, cfg, e) ==
    IF path \in AuthSkipPaths THEN Forward
    ELSE IF ~Truthy(is_authentication_enabled(cfg, e)) THEN Forward
    ELSE IF ~Truthy(auth_header) THEN
        Reject(401, "Missing Authorization header")
    ELSE IF ~startswith(auth_header[2], Bearer) THEN
        Reject(401, "Invalid Authorization header format. Use: Bearer <token>")
    ELSE
        LET token == Str(SubSeq(auth_header[2], BearerPrefixLen + 1, Len(auth_header[2])))
            expected_token == get_auth_token(cfg, e)
        IN  IF token # expected_token
            THEN Reject(403, "Invalid authentication token")
            ELSE Forward

\* AuthenticationMiddleware.dispatch: it returns what call_next returns, or the
\* rejection
AuthDispatch(r) ==
    /\ At(r, "auth", "down")
    /\ LET d == authenticate(requests[r].path, requests[r].auth, _config, env)
       IN  requests' = [requests EXCEPT ![r] =
               IF d.forward THEN CallNext(@, "auth")
               ELSE Return(@, "auth", Response(d.status, d.body))]
    /\ UNCHANGED log
    /\ PipelineUnchanged

AuthReturn(r) ==
    /\ At(r, "auth", "up")
    /\ requests' = [requests EXCEPT ![r] = Return(@, "auth", @.resp)]
    /\ UNCHANGED log
    /\ PipelineUnchanged

\* the routes of server.py, then the FastMCP application mounted at "/"
Route(r) ==
    /\ At(r, "router", "down")
    /\ requests' = [requests EXCEPT ![r] =
            CASE @.path \in {"/healthz", "/health"} -> Return(@, "router", Response(200, "OK"))
              [] @.path = "/health/deep" -> Return(@, "router", Response(200, "health"))
              [] @.path = "/version" -> Return(@, "router", Response(200, "version"))
              [] @.path = "/mcp" ->
                    IF @.raises THEN Raise(@, "router")
                    ELSE Return(@, "router", Response(200, "mcp"))
              [] OTHER -> Return(@, "router", Response(404, "Not Found"))]
    /\ UNCHANGED log
    /\ PipelineUnchanged

\* an exception passes a stage that does not catch it
Propagate(r) ==
    /\ requests[r].pc = "run"
    /\ requests[r].pos \in 1..Len(Chain)
    /\ requests[r].dir = "raise"
    /\ StageOf(r) \in {"cors", "hostname", "auth"}
    /\ requests' = [requests EXCEPT ![r] = Raise(@, StageOf(r))]
    /\ UNCHANGED log
    /\ PipelineUnchanged

\* outside the outermost middleware: the response is sent, or Starlette's
\* ServerErrorMiddleware answers the exception with its plain 500
Send(r) ==
    /\ requests[r].pc = "run"
    /\ requests[r].pos = 0
    /\ requests' = [requests EXCEPT ![r] =
            [@ EXCEPT !.pc = "sent",
                      !.resp = IF requests[r].dir = "raise"
                               THEN Response(500, "Internal Server Error") ELSE @]]
    /\ UNCHANGED log
    /\ PipelineUnchanged

\* the request context is discarded
Discard(r) ==
    /\ requests[r].pc = "sent"
    /\ requests' = [requests EXCEPT ![r] = IdleRequest]
    /\ log' = [log EXCEPT ![r] = <<>>]
    /\ PipelineUnchanged

-----------------------------------------------------------------------------
(* server/config.py: reload, and the readers of the configuration *)

ConfigUnchanged == UNCHANGED <<env, middleware, requests, log, modules, discoverPc,
                               registry, startPc, report, toolCall>>

\* the dotted paths the program reads
Keys ==
    { <<"server", "port">>, <<"mcp", "name">>,
      <<"security", "authentication", "enabled">>,
      <<"security", "authentication", "bearer_token">>,
      <<"security", "missing">>, <<"server", "port", "x">> }

\* mutant: the tree is dropped before the file is read
ReloadLoad_clobber ==
    /\ reloadPc = "idle"
    /\ IF LoadRaises(file)
       THEN /\ failure' = LoadException(file)
            /\ _config' = None
            /\ UNCHANGED reloadPc
       ELSE /\ _config' = _load_config(file)
            /\ reloadPc' = "loaded"
            /\ failure' = "none"
    /\ UNCHANGED <<file, observed, warned>>
    /\ ConfigUnchanged

\* Config.reload, `self._config = self._load_config()`: an exception of
\* _load_config leaves reload before the assignment
ReloadLoad ==
    /\ reloadPc = "idle"
    /\ IF LoadRaises(file)
       THEN /\ failure' = LoadException(file)
            /\ UNCHANGED <<_config, reloadPc>>
       ELSE /\ _config' = _load_config(file)
            /\ reloadPc' = "loaded"
            /\ failure' = "none"
    /\ UNCHANGED <<file, observed, warned>>
    /\ ConfigUnchanged

\* mutant: reload leaves the tree as it was loaded
ReloadSubstitute_skip ==
    /\ reloadPc = "loaded"
    /\ reloadPc' = "idle"
    /\ UNCHANGED <<file, _config, observed, failure, warned>>
    /\ ConfigUnchanged

\* Config.reload, `self._substitute_env_vars()`
ReloadSubstitute ==
    /\ reloadPc = "loaded"
    /\ _config' = substitute(_config, env)
    /\ warned' = substitute_warnings(_config, env)
    /\ reloadPc' = "idle"
    /\ UNCHANGED <<file, observed, failure>>
    /\ ConfigUnchanged

\* settings.yaml is rewritten on disk
EditFile(files) ==
    /\ \E f \in files : f # file /\ file' = f
    /\ UNCHANGED <<_config, reloadPc, observed, failure, warned>>
    /\ ConfigUnchanged

\* another thread calls Config.get
ReaderGet ==
    /\ \E key \in Keys : observed' = <<key, get(_config, key, None)>>
    /\ UNCHANGED <<file, _config, reloadPc, failure, warned>>
    /\ ConfigUnchanged

-----------------------------------------------------------------------------
(* The server, from the moment it listens *)

\* the environments and the settings files the server is started with
Envs ==
    { [n \in {AUTH_TOKEN} |-> Str(TokEnv)],
      <<>> }

Files ==
    { <<"ok", Tree(BoolV(TRUE), Str(TokFile))>>,
      <<"ok", Tree(BoolV(FALSE), None)>> }

\* Config.__init__
ConfigInit(f, e) == substitute(_load_config(f), e)

\* module level of server.py up to uvicorn.run: the configuration is loaded and
\* validated, and the middleware stack is built
Init ==
    /\ env \in Envs
    /\ file \in Files
    /\ _config = ConfigInit(file, env)
    /\ warned = substitute_warnings(_load_config(file), env)
    /\ ValidationPasses(_config, env)
    /\ middleware = BuildMiddleware(_config, env)
    /\ requests = [r \in RequestIds |-> IdleRequest]
    /\ log = [r \in RequestIds |-> <<>>]
    /\ reloadPc = "idle"
    /\ observed = <<>>
    /\ modules = <<>>
    /\ discoverPc = <<>>
    /\ registry = <<>>
    /\ failure = "none"
    /\ startPc = "serving"
    /\ report = [errors |-> {}, warnings |-> {}]
    /\ toolCall = <<>>

Next ==
    \/ EditFile(Files)
    \/ ReloadLoad
    \/ ReloadSubstitute
    \/ \E r \in RequestIds :
        \/ Arrive(r)
        \/ CorsDispatch(r)
        \/ CorsReturn(r)
        \/ HostnameDispatch(r)
        \/ HostnameReturn(r)
        \/ LoggingDispatch(r)
        \/ LoggingReturn(r)
        \/ LoggingExcept(r)
        \/ AuthDispatch(r)
        \/ AuthReturn(r)
        \/ Route(r)
        \/ Propagate(r)
        \/ Send(r)
        \/ Discard(r)

Spec == Init /\ [][Next]_vars

-----------------------------------------------------------------------------
(* What a request's trace tells *)

StageEvents(r, stage) == SelectSeq(requests[r].trace, LAMBDA ev : ev[1] = stage)
\* the stage has handed the request to the inner chain
Forwarded(r, stage) ==
    StageEvents(r, stage) # <<>> /\ Head(StageEvents(r, stage))[2] = "request"
\* the stage has answered the request itself
ShortCircuited(r, stage) ==
    StageEvents(r, stage) # <<>> /\ Head(StageEvents(r, stage))[2] = "response"
\* the request is at the router, or has been there
ReachedRouter(r) == At(r, "router", "down") \/ StageEvents(r, "router") # <<>>

AuthInstalled == \E i \in 1..Len(middleware) : middleware[i] = "auth"
AuthEnabledNow == Truthy(is_authentication_enabled(_config, env))

\* the step in which the authentication stage decides on request r
AuthStep(r) == At(r, "auth", "down") /\ requests'[r] # requests[r]
\* what that step decided
StepOutcome(r) ==
    IF requests'[r].dir = "down" THEN Forward
    ELSE Reject(requests'[r].resp.status, requests'[r].resp.body)

-----------------------------------------------------------------------------
(* C1: with authentication enabled (the stage installed, the flag read as    *)
(* true), a request on a path outside the allow-list is handed to the inner  *)
(* chain only if its Authorization header is exactly "Bearer " followed by   *)
(* the expected token; the router is reached only through the               *)
(* authentication stage, and never by a request the stage rejected.          *)
C1_Gate(r) ==
    ( /\ AuthStep(r)
      /\ requests[r].path \notin AuthSkipPaths
      /\ AuthEnabledNow
      /\ requests'[r].dir = "down" )
    => /\ IsStr(get_auth_token(_config, env))
       /\ requests[r].auth = Str(Bearer \o get_auth_token(_config, env)[2])

C1_Order(r) ==
    /\ (AuthInstalled /\ ReachedRouter(r)) => Forwarded(r, "auth")
    /\ ShortCircuited(r, "auth") => ~ReachedRouter(r)

C1_AuthGatesHandler ==
    /\ [](\A r \in RequestIds : C1_Order(r))
    /\ [][\A r \in RequestIds : C1_Gate(r)]_vars

\* a request with the right token was answered by the MCP handler
C1_Witness ==
    \E r \in RequestIds :
        /\ AuthInstalled /\ AuthEnabledNow
        /\ requests[r].pc = "sent"
        /\ requests[r].path = "/mcp"
        /\ requests[r].auth = Str(Bearer \o TokFile)
        /\ Forwarded(r, "auth")
        /\ requests[r].resp.body = "mcp"

-----------------------------------------------------------------------------
(* C2: with authentication enabled and a path outside the allow-list the     *)
(* stage decides in this order: no Authorization header -> 401 "Missing      *)
(* Authorization header"; header not starting with "Bearer " -> 401          *)
(* "Invalid Authorization header format. Use: Bearer <token>"; token after   *)
(* the prefix different from the expected token -> 403 "Invalid              *)
(* authentication token"; otherwise the request is forwarded.  The outcome   *)
(* depends on the flag, the header and the expected token only.              *)

\* the decision the claim states, from the header and the expected token
ClaimedOutcome(header, expected) ==
    IF header = None THEN Reject(401, "Missing Authorization header")
    ELSE IF ~startswith(header[2], Bearer)
        THEN Reject(401, "Invalid Authorization header format. Use: Bearer <token>")
    ELSE IF ~IsStr(expected) \/ header # Str(Bearer \o expected[2])
        THEN Reject(403, "Invalid authentication token")
    ELSE Forward

\* the same, an empty header counting as a missing one
AmendedOutcome(header, expected) ==
    IF header = Str(<<>>) THEN ClaimedOutcome(None, expected)
    ELSE ClaimedOutcome(header, expected)

AuthDecides(r) ==
    AuthStep(r) /\ requests[r].path \notin AuthSkipPaths /\ AuthEnabledNow

\* C2 as stated: violated by a request whose Authorization header is empty
C2_AsClaimed ==
    [][\A r \in RequestIds :
        AuthDecides(r) =>
            StepOutcome(r) = ClaimedOutcome(requests[r].auth, get_auth_token(_config, env))]_vars

\* C2 as amended: an absent or empty header is answered 401 "Missing
\* Authorization header", the rest as stated
C2_DecisionOrder ==
    [][\A r \in RequestIds :
        AuthDecides(r) =>
            StepOutcome(r) = AmendedOutcome(requests[r].auth, get_auth_token(_config, env))]_vars

\* a request with a well-formed header and the wrong token was answered 403
C2_Witness ==
    \E r \in RequestIds :
        /\ ShortCircuited(r, "auth")
        /\ requests[r].pc = "sent"
        /\ requests[r].auth \in {Str(Bearer \o TokFile), Str(Bearer \o TokEnv)}
        /\ requests[r].resp.status = 403
        /\ requests[r].resp.body = "Invalid authentication token"

-----------------------------------------------------------------------------
(* C3: the authentication stage forwards, whatever the Authorization header, *)
(* every request on /healthz, /health, /version or /_info, and every request *)
(* on any path while authentication is disabled; such a request is never     *)
(* answered 401 or 403.                                                      *)
C3_Bypass(r) ==
    ( /\ AuthStep(r)
      /\ (requests[r].path \in {"/healthz", "/health", "/version", "/_info"}
            \/ ~AuthEnabledNow) )
    => requests'[r].dir = "down"

C3_AllowListBypass ==
    /\ [](\A r \in RequestIds :
            requests[r].path \in {"/healthz", "/health", "/version", "/_info"}
                => requests[r].resp.status \notin {401, 403})
    /\ [][\A r \in RequestIds : C3_Bypass(r)]_vars

\* the installed stage has forwarded a request without header on /_info
C3_Witness ==
    \E r \in RequestIds :
        /\ AuthInstalled /\ AuthEnabledNow
        /\ requests[r].path = "/_info"
        /\ requests[r].auth = None
        /\ Forwarded(r, "auth")
        /\ requests[r].pc = "sent"

-----------------------------------------------------------------------------
(* C4: GET /health/deep never requires authentication: a request to          *)
(* /health/deep without Authorization header is answered by the deep health  *)
(* handler (200 or 503) and not rejected with 401 or 403, also when          *)
(* authentication is enabled.  Violated: /health/deep is not on the          *)
(* allow-list of the authentication stage.                                   *)
C4_DeepHealthOpen ==
    \A r \in RequestIds :
        ( /\ requests[r].pc = "sent"
          /\ requests[r].path = "/health/deep"
          /\ requests[r].auth = None
          /\ ~requests[r].preflight )
        => /\ requests[r].resp.status \in {200, 503}
           /\ requests[r].resp.body = "health"

-----------------------------------------------------------------------------
(* C5: request logging wraps authentication: a request the authentication    *)
(* stage rejects has passed the logging stage, which gave it a correlation   *)
(* ID and logged its start; once the rejection has passed the logging stage  *)
(* on its way out, a completion line of level warning with that ID is        *)
(* logged and the response carries it as X-Correlation-ID.                   *)
LoggingLeft(r) ==
    \E i \in 1..Len(requests[r].trace) : requests[r].trace[i] = <<"logging", "response">>

C5_RejectionsLogged ==
    \A r \in RequestIds :
        ShortCircuited(r, "auth") =>
            /\ requests[r].resp.status \in {401, 403}
            /\ Forwarded(r, "logging")
            /\ IsStr(requests[r].cid)
            /\ log[r] # <<>>
            /\ log[r][1] = LogLine(requests[r].cid[2], "info", "start", requests[r].path)
            /\ LoggingLeft(r) =>
                /\ log[r][Len(log[r])] =
                        LogLine(requests[r].cid[2], "warning", "complete", requests[r].path)
                /\ <<"X-Correlation-ID", requests[r].cid[2]>> \in requests[r].resp.headers

\* a rejection has been sent
C5_Witness ==
    \E r \in RequestIds :
        /\ ShortCircuited(r, "auth")
        /\ requests[r].pc = "sent"
        /\ requests[r].resp.status = 401
        /\ Len(log[r]) = 2

-----------------------------------------------------------------------------
(* C6: the middleware chain, outermost first, is hostname tagging, CORS,     *)
(* request logging, authentication, dispatch: every request enters the       *)
(* stages in that order and every response leaves them in the reverse        *)
(* order.                                                                    *)

\* the stages a request has entered, in the order it entered them
Entered(r) ==
    LET down == SelectSeq(requests[r].trace, LAMBDA ev : ev[2] = "request")
    IN  [i \in 1..Len(down) |-> down[i][1]]

\* a trace along the chain `chain`: k stages entered in order, then the
\* stages left in reverse order, starting with the stage that answered
FollowsChain(trace, chain) ==
    LET k == Len(SelectSeq(trace, LAMBDA ev : ev[2] = "request"))
    IN  /\ Len(trace) <= 2 * k + 1
        /\ k < Len(chain)
        /\ \A i \in 1..Len(trace) :
              IF i <= k THEN trace[i] = <<chain[i], "request">>
              ELSE trace[i][1] = chain[2 * k + 2 - i] /\ trace[i][2] # "request"

-----------------------------------------------------------------------------
(* C7: every response carries X-Served-By, also a 401 or 403 rejection and   *)
(* the response to a request whose handler raised; every response on a path  *)
(* other than /healthz and /health also carries an X-Correlation-ID of 8     *)
(* characters.  Stated for the requests that CORS passes on.  Violated: the  *)
(* 500 answering a raising handler is made outside the middleware and has    *)
(* neither header.                                                           *)
C7_ResponseHeaders ==
    \A r \in RequestIds :
        (requests[r].pc = "sent" /\ ~requests[r].preflight) =>
            /\ "X-Served-By" \in HeaderNames(requests[r].resp)
            /\ requests[r].path \notin {"/healthz", "/health"} =>
                    \E h \in requests[r].resp.headers :
                        h[1] = "X-Correlation-ID" /\ Len(h[2]) = 8

-----------------------------------------------------------------------------
(* The configuration under reload: one thread reloads, another reads *)

ConfigEnvs ==
    { [n \in {AUTH_TOKEN} |-> Str(TokEnv)],
      <<>> }

ConfigFiles ==
    { <<"ok", Tree(BoolV(TRUE), Str(TokFile))>>,
      <<"ok", Tree(BoolV(TRUE), Placeholder(AUTH_TOKEN))>>,
      <<"ok", Tree(BoolV(FALSE), None)>>,
      <<"absent">>,
      <<"malformed">> }

InitConfig ==
    /\ env \in ConfigEnvs
    /\ file \in {f \in ConfigFiles : ~LoadRaises(f)}
    /\ _config = ConfigInit(file, env)
    /\ warned = substitute_warnings(_load_config(file), env)
    /\ middleware = <<>>
    /\ requests = [r \in RequestIds |-> IdleRequest]
    /\ log = [r \in RequestIds |-> <<>>]
    /\ reloadPc = "idle"
    /\ observed = <<>>
    /\ modules = <<>>
    /\ discoverPc = <<>>
    /\ registry = <<>>
    /\ failure = "none"
    /\ startPc = "serving"
    /\ report = [errors |-> {}, warnings |-> {}]
    /\ toolCall = <<>>

NextConfig ==
    \/ EditFile(ConfigFiles)
    \/ ReloadLoad
    \/ ReloadSubstitute
    \/ ReaderGet

SpecConfig == InitConfig /\ [][NextConfig]_vars

-----------------------------------------------------------------------------
(* C8: Config.reload replaces the tree atomically: a reader calling get()    *)
(* while a reload is under way sees the old resolved tree or the new         *)
(* resolved tree, never a tree whose ${VAR} placeholders are not yet         *)
(* substituted.  Violated: reload assigns the tree as loaded, and             *)
(* substitutes in a second assignment.                                       *)

\* the fully resolved trees the settings file can give in this environment
ResolvedTrees == {ConfigInit(f, env) : f \in {g \in ConfigFiles : ~LoadRaises(g)}}

C8_ReloadAtomic ==
    observed # <<>> =>
        \E tree \in ResolvedTrees : observed[2] = get(tree, observed[1], None)

-----------------------------------------------------------------------------
(* server/server.py, server/mcp_app.py: discovery of the plugin modules *)

\* how many plugin modules the three packages hold together
MaxModules == 3

Packages == <<"tools", "resources", "prompts">>
KindOf(pkg) ==
    CASE pkg = "tools" -> "tool" [] pkg = "resources" -> "resource" [] pkg = "prompts" -> "prompt"

\* what a plugin directory can hold: a module that registers one capability, a
\* module whose import raises (before it registers anything), a sub-package, a
\* module whose name starts with "_"
ModuleVariants ==
    { [ispkg |-> FALSE, private |-> FALSE, raises |-> FALSE, cap |-> "echo"],
      [ispkg |-> FALSE, private |-> FALSE, raises |-> FALSE, cap |-> "info"],
      [ispkg |-> FALSE, private |-> FALSE, raises |-> TRUE, cap |-> ""],
      [ispkg |-> TRUE, private |-> FALSE, raises |-> FALSE, cap |-> ""],
      [ispkg |-> FALSE, private |-> TRUE, raises |-> FALSE, cap |-> "echo"] }

Letters == <<"a", "b", "c", "d", "e", "f">>

\* the i-th entry of a package: its name (a private module's name starts with
\* "_") and what it is
Module(i, v) ==
    [name |-> IF v.private THEN <<"_", Letters[i]>> ELSE <<Letters[i]>>,
     ispkg |-> v.ispkg, raises |-> v.raises, cap |-> v.cap]

\* the layouts of the plugin directories: pkgutil.iter_modules yields the
\* entries sorted by name, the names starting with "_" first
Layouts ==
    LET slots == UNION {[1..n -> (1..3) \X ModuleVariants] : n \in 0..MaxModules}
        ordered(s) == \A i \in 1..Len(s) - 1 :
                         \/ s[i][1] < s[i + 1][1]
                         \/ s[i][1] = s[i + 1][1] /\ (s[i + 1][2].private => s[i][2].private)
        of(s, p) == SelectSeq(s, LAMBDA x : x[1] = p)
    IN  { [k \in 1..3 |-> [i \in 1..Len(of(s, k)) |-> Module(i, of(s, k)[i][2])]] :
            s \in {x \in slots : ordered(x)} }

\* mcp = FastMCP(name=..., stateless_http=..., json_response=True): no policy for
\* duplicates is passed, and FastMCP's default ("warn") logs a warning and
\* replaces the capability registered under the name
register(reg, key, handle) ==
    [k \in DOMAIN reg \cup {key} |-> IF k = key THEN handle ELSE reg[k]]

DiscoveryUnchanged == UNCHANGED <<env, file, _config, reloadPc, observed, middleware,
                                  requests, log, modules, failure, startPc, report, warned, toolCall>>

\* the loop `for pkg in ("tools", "resources", "prompts")` is under way: it
\* follows validate_config(config) at the module level of server.py
Discovering == startPc = "discover" /\ discoverPc.pkg \in 1..Len(Packages)
CurrentPackage == Packages[discoverPc.pkg]
Entries == modules[discoverPc.pkg]
AtEntry == Discovering /\ discoverPc.mod <= Len(Entries)
Entry == Entries[discoverPc.mod]

\* import_submodules, an entry that is a package or starts with "_": not imported
DiscoverSkip ==
    /\ AtEntry
    /\ Entry.ispkg \/ startswith(Entry.name, <<"_">>)
    /\ discoverPc' = [discoverPc EXCEPT !.mod = @ + 1]
    /\ UNCHANGED registry
    /\ DiscoveryUnchanged

\* import_submodules, importlib.import_module returns: the module's decorators
\* have registered its capabilities
DiscoverImport ==
    /\ AtEntry
    /\ ~(Entry.ispkg \/ startswith(Entry.name, <<"_">>))
    /\ ~Entry.raises
    /\ registry' = register(registry, <<KindOf(CurrentPackage), Entry.cap>>,
                            <<CurrentPackage, Entry.name>>)
    /\ discoverPc' = [discoverPc EXCEPT !.mod = @ + 1,
                                        !.loaded = @ \cup {<<CurrentPackage, Entry.name>>}]
    /\ DiscoveryUnchanged

\* import_submodules, importlib.import_module raises: the `except` around the
\* whole loop logs the package as failed, and the function returns
DiscoverFail ==
    /\ AtEntry
    /\ ~(Entry.ispkg \/ startswith(Entry.name, <<"_">>))
    /\ Entry.raises
    /\ discoverPc' = [discoverPc EXCEPT !.pkg = @ + 1, !.mod = 1,
                                        !.errors = @ \cup {CurrentPackage}]
    /\ UNCHANGED registry
    /\ DiscoveryUnchanged

\* import_submodules returns after the last entry: the next package's turn
DiscoverReturn ==
    /\ Discovering
    /\ discoverPc.mod > Len(Entries)
    /\ discoverPc' = [discoverPc EXCEPT !.pkg = @ + 1, !.mod = 1]
    /\ UNCHANGED registry
    /\ DiscoveryUnchanged

InitDiscovery ==
    /\ modules \in Layouts
    /\ discoverPc = [pkg |-> 1, mod |-> 1, loaded |-> {}, errors |-> {}]
    /\ registry = <<>>
    /\ env = <<>>
    /\ file = <<"ok", Tree(BoolV(FALSE), None)>>
    /\ _config = ConfigInit(file, env)
    /\ warned = substitute_warnings(_load_config(file), env)
    /\ middleware = <<>>
    /\ requests = [r \in RequestIds |-> IdleRequest]
    /\ log = [r \in RequestIds |-> <<>>]
    /\ reloadPc = "idle"
    /\ observed = <<>>
    /\ failure = "none"
    /\ startPc = "discover"
    /\ report = [errors |-> {}, warnings |-> {}]
    /\ toolCall = <<>>

NextDiscovery ==
    \/ DiscoverSkip
    \/ DiscoverImport
    \/ DiscoverFail
    \/ DiscoverReturn

SpecDiscovery == InitDiscovery /\ [][NextDiscovery]_vars

-----------------------------------------------------------------------------
(* C9: discovery is best-effort per module: when a plugin module raises on   *)
(* import, every other eligible module of its directory and of the other     *)
(* directories is still imported, nothing is raised, and the registry ends   *)
(* up holding exactly the capabilities of the modules that imported.         *)
(* Violated: the `try` of import_submodules in server.py encloses the whole  *)
(* loop, so the modules after a failing one are not imported.                *)

\* the modules of a package that discovery is to import, and those that import
Eligible(k) ==
    {i \in 1..Len(modules[k]) : ~modules[k][i].ispkg /\ ~startswith(modules[k][i].name, <<"_">>)}
Importable ==
    { <<Packages[k], modules[k][i].name>> :
        <<k, i>> \in {x \in (1..Len(Packages)) \X (1..MaxModules) :
                        x[2] \in Eligible(x[1]) /\ ~modules[x[1]][x[2]].raises} }
ImportableCapabilities ==
    { <<KindOf(Packages[k]), modules[k][i].cap>> :
        <<k, i>> \in {x \in (1..Len(Packages)) \X (1..MaxModules) :
                        x[2] \in Eligible(x[1]) /\ ~modules[x[1]][x[2]].raises} }

C9_BestEffortDiscovery ==
    ~Discovering =>
        /\ failure = "none"
        /\ discoverPc.loaded = Importable
        /\ DOMAIN registry = ImportableCapabilities

-----------------------------------------------------------------------------
(* C10: registering a capability under a (kind, name) pair that is already   *)
(* registered is rejected with a DuplicateCapability failure, and the record *)
(* of the first registration is never overwritten.  Violated: the FastMCP    *)
(* instance is created without a policy for duplicates, so the import of a   *)
(* module that registers a taken pair raises nothing and replaces the record.*)
C10_FirstRegistrationKept ==
    [][/\ \A key \in DOMAIN registry :
            key \in DOMAIN registry' /\ registry'[key] = registry[key]
       /\ (/\ discoverPc'.loaded # discoverPc.loaded
           /\ DOMAIN registry' = DOMAIN registry)
              => failure' = "DuplicateCapability"]_vars

-----------------------------------------------------------------------------
(* server/server.py: the module level, from get_config() to uvicorn.run *)

\* settings.yaml with every key the program reads; a key mapped to None is a
\* key written with a null value
Settings(port, name, enabled, token) ==
    DictV([k \in {"server", "mcp", "security"} |->
        CASE k = "server" -> DictV([j \in {"port"} |-> port])
          [] k = "mcp" -> DictV([j \in {"name"} |-> name])
          [] k = "security" ->
                DictV([j \in {"authentication"} |->
                    DictV([i \in {"enabled", "bearer_token"} |->
                        IF i = "enabled" THEN enabled ELSE token])])])

NoReport == [errors |-> {}, warnings |-> {}]

StartUnchanged == UNCHANGED <<env, file, reloadPc, observed, requests, log, modules,
                              discoverPc, registry, toolCall>>

\* config = get_config(): Config.__init__ loads and substitutes; an exception of
\* _load_config ends the process
LoadConfig ==
    /\ startPc = "load"
    /\ IF LoadRaises(file)
       THEN /\ failure' = LoadException(file)
            /\ startPc' = "exited"
            /\ UNCHANGED <<_config, warned>>
       ELSE /\ _config' = ConfigInit(file, env)
            /\ warned' = substitute_warnings(_load_config(file), env)
            /\ startPc' = "validate"
            /\ UNCHANGED failure
    /\ UNCHANGED <<middleware, report>>
    /\ StartUnchanged

\* validate_config(config): the warnings and the errors are logged, and
\* sys.exit(1) follows the errors; len(token) of a token that is not a string
\* raises before anything is logged
StartValidate ==
    /\ startPc = "validate"
    /\ LET v == validate_config(_config, env)
       IN  IF v.raises
           THEN /\ failure' = "TypeError"
                /\ startPc' = "exited"
                /\ UNCHANGED report
           ELSE /\ report' = [errors |-> v.errors, warnings |-> v.warnings]
                /\ IF v.errors # {}
                   THEN failure' = "SystemExit" /\ startPc' = "exited"
                   ELSE startPc' = "discover" /\ UNCHANGED failure
    /\ UNCHANGED <<_config, middleware, warned>>
    /\ StartUnchanged

\* int(v): of an int or a bool the number, of a string what it parses to
int_of(v) ==
    IF IsInstanceInt(v) THEN <<"ok", IntValue(v)>>
    ELSE IF IsStr(v) THEN int_of_str(v[2])
    ELSE <<"TypeError">>

\* port = int(os.getenv('MCP_PORT', config.get('server.port', 8000)))
listen_port(cfg, e) ==
    int_of(getenv_default(e, MCP_PORT, get(cfg, <<"server", "port">>, IntV(DefaultPort))))

\* mutant: the application is built and served without waiting for the
\* discovery loop
Listen_early ==
    /\ startPc = "discover"
    /\ middleware' = BuildMiddleware(_config, env)
    /\ startPc' = "serving"
    /\ UNCHANGED <<_config, failure, report, warned>>
    /\ StartUnchanged

\* after the discovery loop: the application is built (the add_middleware
\* calls, the routes, the mount), the port is computed and uvicorn.run(app, ...)
\* listens; an exception of int() ends the process
Listen ==
    /\ startPc = "discover"
    /\ discoverPc.pkg > Len(Packages)
    /\ middleware' = BuildMiddleware(_config, env)
    /\ IF listen_port(_config, env)[1] = "ok"
       THEN startPc' = "serving" /\ UNCHANGED failure
       ELSE startPc' = "exited" /\ failure' = listen_port(_config, env)[1]
    /\ UNCHANGED <<_config, report, warned>>
    /\ StartUnchanged

\* how many plugin modules the packages hold when the whole start-up is followed
MaxStartModules == 1

StartLayouts ==
    {l \in Layouts : Len(l[1]) + Len(l[2]) + Len(l[3]) <= MaxStartModules}

StartFiles ==
    { <<"ok", Settings(IntV(8000), Str(<<"m">>), BoolV(TRUE), Str(TokFile))>>,
      <<"ok", Settings(IntV(8000), Str(<<"m">>), BoolV(FALSE), None)>>,
      <<"ok", Settings(IntV(8000), Str(<<"m">>), BoolV(TRUE), None)>>,
      <<"ok", Settings(IntV(70000), Str(<<"m">>), BoolV(FALSE), None)>>,
      <<"absent">> }

InitStartup ==
    /\ env \in Envs
    /\ file \in StartFiles
    /\ modules \in StartLayouts
    /\ _config = None
    /\ warned = {}
    /\ startPc = "load"
    /\ report = NoReport
    /\ discoverPc = [pkg |-> 1, mod |-> 1, loaded |-> {}, errors |-> {}]
    /\ registry = <<>>
    /\ middleware = <<>>
    /\ requests = [r \in RequestIds |-> IdleRequest]
    /\ log = [r \in RequestIds |-> <<>>]
    /\ reloadPc = "idle"
    /\ observed = <<>>
    /\ failure = "none"
    /\ toolCall = <<>>

NextStartup ==
    \/ LoadConfig
    \/ StartValidate
    \/ DiscoverSkip
    \/ DiscoverImport
    \/ DiscoverFail
    \/ DiscoverReturn
    \/ Listen
    \/ \E r \in RequestIds :
        \/ Arrive(r)
        \/ CorsDispatch(r)
        \/ CorsReturn(r)
        \/ HostnameDispatch(r)
        \/ HostnameReturn(r)
        \/ LoggingDispatch(r)
        \/ LoggingReturn(r)
        \/ LoggingExcept(r)
        \/ AuthDispatch(r)
        \/ AuthReturn(r)
        \/ Route(r)
        \/ Propagate(r)
        \/ Send(r)
        \/ Discard(r)

SpecStartup == InitStartup /\ [][NextStartup]_vars

-----------------------------------------------------------------------------
(* C11: start-up is ordered.  Validation of the configuration completes       *)
(* before a plugin module is looked at; the discovery of the three plugin    *)
(* packages completes before the listener accepts a request; when validation *)
(* fails the listener never serves and no plugin is imported; once the       *)
(* listener serves, the registry is neither added to nor removed from.       *)

\* validate_config has returned normally
Validated == startPc \in {"discover", "serving"}

C11_Order ==
    /\ (discoverPc # [pkg |-> 1, mod |-> 1, loaded |-> {}, errors |-> {}]
            \/ registry # <<>>)
         => Validated /\ ValidationPasses(_config, env)
    /\ (startPc = "serving" \/ \E r \in RequestIds : requests[r].pc # "idle")
         => discoverPc.pkg > Len(Packages) /\ ValidationPasses(_config, env)
    /\ (startPc = "exited")
         => /\ registry = <<>>
            /\ discoverPc.loaded = {}
            /\ \A r \in RequestIds : requests[r].pc = "idle"

C11_Steps ==
    /\ (startPc = "exited" => startPc' = "exited")
    /\ (startPc = "serving" => registry' = registry /\ startPc' = "serving")
    /\ (discoverPc' # discoverPc \/ registry' # registry) => startPc = "discover"

C11_StartupOrdering == []C11_Order /\ [][C11_Steps]_vars

\* a server that imported a plugin, listens, and has answered a request
C11_Witness ==
    /\ startPc = "serving"
    /\ registry # <<>>
    /\ \E r \in RequestIds : requests[r].pc = "sent"

-----------------------------------------------------------------------------
(* validate_config over the configurations an operator can write *)

\* a token of 16 characters: the shortest that draws no warning
LongToken == [i \in 1..WeakTokenLen |-> "x"]

ValidatePorts == {IntV(8000), IntV(70000), IntV(0), Str(<<"8", "0">>), BoolV(TRUE)}
ValidateNames == {Str(<<"m">>), Str(<<>>), None, IntV(5)}
ValidateTokens == {None, Str(<<>>), Str(TokFile), Str(LongToken), IntV(12345)}
ValidatePortEnvs ==
    { None, Str(<<>>), Str(<<"8", "0">>), Str(<<"0">>), Str(<<"a", "b">>),
      Str(<<"7", "0", "0", "0", "0">>) }

InitValidate ==
    /\ \E port \in ValidatePorts, name \in ValidateNames, enabled \in BOOLEAN,
          token \in ValidateTokens :
         file = <<"ok", Settings(port, name, BoolV(enabled), token)>>
    /\ \E p \in ValidatePortEnvs :
         env = IF p = None THEN <<>> ELSE [n \in {MCP_PORT} |-> p]
    /\ _config = ConfigInit(file, env)
    /\ warned = substitute_warnings(_load_config(file), env)
    /\ startPc = "validate"
    /\ report = NoReport
    /\ discoverPc = [pkg |-> 1, mod |-> 1, loaded |-> {}, errors |-> {}]
    /\ modules = [k \in 1..3 |-> <<>>]
    /\ registry = <<>>
    /\ middleware = <<>>
    /\ requests = [r \in RequestIds |-> IdleRequest]
    /\ log = [r \in RequestIds |-> <<>>]
    /\ reloadPc = "idle"
    /\ observed = <<>>
    /\ failure = "none"
    /\ toolCall = <<>>

NextValidate == StartValidate

SpecValidate == InitValidate /\ [][NextValidate]_vars

-----------------------------------------------------------------------------
(* C12: validate_config evaluates its four checks (server.port, mcp.name,    *)
(* the token when authentication is enabled, MCP_PORT) independently: when   *)
(* at least one fails, all the failing ones are reported in the same pass    *)
(* and the process exits with status 1; when none fails the function returns *)
(* normally, and a warning alone causes no exit.  Violated: a token that is  *)
(* not a string (bearer_token: 12345) makes len(token) raise TypeError       *)
(* before anything is reported.                                              *)

\* the checks that fail for the configuration, each judged on its own
FailingChecks ==
    LET port == get(_config, <<"server", "port">>, IntV(DefaultPort))
        name == get(_config, <<"mcp", "name">>, None)
        portEnv == getenv(env, MCP_PORT)
    IN  {c \in {"server.port", "mcp.name", "AUTH_TOKEN", "MCP_PORT not an integer",
                "MCP_PORT out of range"} :
            CASE c = "server.port" ->
                    ~(IsInstanceInt(port) /\ IntValue(port) \in MinPort..MaxPort)
              [] c = "mcp.name" -> ~(IsStr(name) /\ name[2] # <<>>)
              [] c = "AUTH_TOKEN" ->
                    /\ Truthy(is_authentication_enabled(_config, env))
                    /\ ~Truthy(get_auth_token(_config, env))
              [] c = "MCP_PORT not an integer" ->
                    Truthy(portEnv) /\ int_of_str(portEnv[2])[1] = "ValueError"
              [] c = "MCP_PORT out of range" ->
                    /\ Truthy(portEnv)
                    /\ int_of_str(portEnv[2])[1] = "ok"
                    /\ int_of_str(portEnv[2])[2] \notin MinPort..MaxPort}

C12_AllErrorsReported ==
    startPc # "validate" =>
        IF FailingChecks # {}
        THEN report.errors = FailingChecks /\ failure = "SystemExit" /\ startPc = "exited"
        ELSE failure = "none" /\ startPc = "discover"

-----------------------------------------------------------------------------
(* Config.get over the trees a settings file can hold *)

\* the trees: every key present, a key written with a null value, falsy
\* values, an empty file (yaml.safe_load returns None), and a file whose
\* `security` is not a mapping
GetTrees ==
    { Settings(port, name, BoolV(enabled), token) :
        port \in {IntV(8000), IntV(0), None}, name \in {Str(<<"m">>), Str(<<>>)},
        enabled \in BOOLEAN, token \in {None, Str(TokFile)} }
    \cup { None,
           DictV([k \in {"security"} |-> Str(<<"o", "n">>)]),
           DictV([k \in {"security"} |-> <<"list", <<Str(<<"o", "n">>)>>>>]) }

GetKeys == Keys \cup {<<"security">>, <<"missing">>, <<"">>, <<"server", "", "port">>}
GetDefaults == {None, IntV(8000), BoolV(FALSE), Str(<<"d">>)}

\* Config.get(key, default) called by the thread that also calls reload: what
\* it asked and what it got
ConfigGet ==
    /\ reloadPc = "idle"
    /\ \E key \in GetKeys, default \in GetDefaults :
         observed' = <<key, get(_config, key, default), default>>
    /\ UNCHANGED <<file, _config, reloadPc, failure, warned>>
    /\ ConfigUnchanged

InitGet ==
    /\ \E tree \in GetTrees : file = <<"ok", tree>>
    /\ env = <<>>
    /\ _config = ConfigInit(file, env)
    /\ warned = substitute_warnings(_load_config(file), env)
    /\ observed = <<>>
    /\ reloadPc = "idle"
    /\ startPc = "serving"
    /\ report = NoReport
    /\ discoverPc = <<>>
    /\ modules = <<>>
    /\ registry = <<>>
    /\ middleware = <<>>
    /\ requests = [r \in RequestIds |-> IdleRequest]
    /\ log = [r \in RequestIds |-> <<>>]
    /\ failure = "none"
    /\ toolCall = <<>>

NextGet == ConfigGet

SpecGet == InitGet /\ [][NextGet]_vars

-----------------------------------------------------------------------------
(* C13: Config.get(key, default) walks the tree segment by segment, returns  *)
(* default as soon as a segment is missing or the current node is not a      *)
(* mapping, and otherwise returns the value stored at the path.  As stated   *)
(* it fails for a key stored with a null value: get returns default, not     *)
(* the stored null.  What holds: default is returned when a segment is       *)
(* missing, is stored as null, or the node is not a mapping; any other       *)
(* stored value (0, "", False included) is returned as it is.                *)

\* the node at a path: <<"stored", v>>, or <<"missing">> when a segment is not
\* a key of the node reached or that node is not a mapping
RECURSIVE NodeAt(_, _)
NodeAt(node, keys) ==
    IF keys = <<>> THEN <<"stored", node>>
    ELSE IF node[1] = "dict" /\ Head(keys) \in DOMAIN node[2]
         THEN NodeAt(node[2][Head(keys)], Tail(keys))
         ELSE <<"missing">>

C13_AsClaimed ==
    observed # <<>> =>
        LET n == NodeAt(_config, observed[1])
        IN  observed[2] = IF n[1] = "stored" THEN n[2] ELSE observed[3]

C13_GetDefault ==
    observed # <<>> =>
        LET n == NodeAt(_config, observed[1])
        IN  observed[2] = IF n[1] = "stored" /\ n[2] # None THEN n[2] ELSE observed[3]

\* get returned a stored falsy value although the default was another value
C13_Witness ==
    /\ observed # <<>>
    /\ NodeAt(_config, observed[1]) = <<"stored", IntV(0)>>
    /\ observed[2] = IntV(0)
    /\ observed[3] = IntV(8000)

-----------------------------------------------------------------------------
(* The accessors of Config that combine the environment and the file *)

AuthEnabledEnvs ==
    { None, Str(<<>>),
      Str(<<"t","r","u","e">>), Str(<<"T","R","U","E">>), Str(<<"T","r","u","e">>),
      Str(<<"1">>), Str(<<"y","e","s">>), Str(<<"Y","E","S">>),
      Str(<<"f","a","l","s","e">>), Str(<<"F","a","l","s","e">>), Str(<<"0">>),
      Str(<<"n","o">>), Str(<<"N","O">>),
      Str(<<"o","n">>), Str(<<" ","t","r","u","e">>) }
AuthTokenEnvs == {None, Str(<<>>), Str(TokEnv), Str(LongToken)}

\* os.environ with the two variables set or unset
AccessorEnvs ==
    { [n \in {x \in {AUTH_ENABLED, AUTH_TOKEN} :
                (x = AUTH_ENABLED /\ a # None) \/ (x = AUTH_TOKEN /\ t # None)} |->
            IF n = AUTH_ENABLED THEN a ELSE t] :
        a \in AuthEnabledEnvs, t \in AuthTokenEnvs }

\* the file: the two keys with a value, with a null, or without the section
AccessorTrees ==
    { Settings(IntV(8000), Str(<<"m">>), enabled, token) :
        enabled \in {BoolV(TRUE), BoolV(FALSE), None, Str(<<"n","o">>)},
        token \in {None, Str(<<>>), Str(TokFile)} }
    \cup { DictV([k \in {"server"} |-> DictV([j \in {"port"} |-> IntV(8000)])]) }

\* a caller of config.is_authentication_enabled()
CallAuthEnabled ==
    /\ observed' = <<<<"is_authentication_enabled">>, is_authentication_enabled(_config, env)>>
    /\ UNCHANGED <<file, _config, reloadPc, failure, warned>>
    /\ ConfigUnchanged

\* a caller of config.get_auth_token()
CallAuthToken ==
    /\ observed' = <<<<"get_auth_token">>, get_auth_token(_config, env)>>
    /\ UNCHANGED <<file, _config, reloadPc, failure, warned>>
    /\ ConfigUnchanged

InitAccessors ==
    /\ env \in AccessorEnvs
    /\ \E tree \in AccessorTrees : file = <<"ok", tree>>
    /\ _config = ConfigInit(file, env)
    /\ warned = substitute_warnings(_load_config(file), env)
    /\ observed = <<>>
    /\ reloadPc = "idle"
    /\ startPc = "serving"
    /\ report = NoReport
    /\ discoverPc = <<>>
    /\ modules = <<>>
    /\ registry = <<>>
    /\ middleware = <<>>
    /\ requests = [r \in RequestIds |-> IdleRequest]
    /\ log = [r \in RequestIds |-> <<>>]
    /\ failure = "none"
    /\ toolCall = <<>>

NextAccessors ==
    \/ CallAuthEnabled
    \/ CallAuthToken

SpecAccessors == InitAccessors /\ [][NextAccessors]_vars

-----------------------------------------------------------------------------
(* C14: is_authentication_enabled.  When AUTH_ENABLED is, in any case of     *)
(* letters, one of true/1/yes the result is true whatever the file says;     *)
(* when it is one of false/0/no the result is false whatever the file says;  *)
(* when it is unset or anything else the result is the value the file        *)
(* configures at security.authentication.enabled, false when there is none.  *)

UpperOf(c) ==
    CASE c = "t" -> "T" [] c = "r" -> "R" [] c = "u" -> "U" [] c = "e" -> "E"
      [] c = "f" -> "F" [] c = "a" -> "A" [] c = "l" -> "L" [] c = "s" -> "S"
      [] c = "y" -> "Y" [] c = "n" -> "N" [] c = "o" -> "O"
      [] OTHER -> c

\* the variable is set to the word, upper or lower case letter by letter
SetToWord(v, words) ==
    /\ v # None
    /\ \E w \in words :
         /\ Len(v[2]) = Len(w)
         /\ \A i \in 1..Len(w) : v[2][i] \in {w[i], UpperOf(w[i])}

C14_EnvOverride ==
    (observed # <<>> /\ observed[1] = <<"is_authentication_enabled">>) =>
        LET v == getenv(env, AUTH_ENABLED)
            n == NodeAt(_config, <<"security", "authentication", "enabled">>)
        IN  observed[2] =
                IF SetToWord(v, {<<"t","r","u","e">>, <<"1">>, <<"y","e","s">>})
                THEN BoolV(TRUE)
                ELSE IF SetToWord(v, {<<"f","a","l","s","e">>, <<"0">>, <<"n","o">>})
                THEN BoolV(FALSE)
                ELSE IF n[1] = "stored" /\ n[2] # None THEN n[2]
                ELSE BoolV(FALSE)

\* the environment says TRUE in capitals, the file says false: enabled
C14_Witness ==
    /\ observed = <<<<"is_authentication_enabled">>, BoolV(TRUE)>>
    /\ getenv(env, AUTH_ENABLED) = Str(<<"T","R","U","E">>)
    /\ NodeAt(_config, <<"security", "authentication", "enabled">>)
            = <<"stored", BoolV(FALSE)>>

-----------------------------------------------------------------------------
(* C15: get_auth_token.  Whenever AUTH_TOKEN is set, its value is the token  *)
(* returned, whatever security.authentication.bearer_token is; the value of  *)
(* the file is returned only when AUTH_TOKEN is not set.  As stated it fails *)
(* for AUTH_TOKEN set to the empty string: `os.getenv(...) or ...` falls     *)
(* through to the file.  What holds: a non-empty AUTH_TOKEN is returned      *)
(* whatever the file says; an unset or empty one yields the file's value.    *)

\* security.authentication.bearer_token as the file gives it
FileToken == get(_config, <<"security", "authentication", "bearer_token">>, None)

C15_AsClaimed ==
    (observed # <<>> /\ observed[1] = <<"get_auth_token">>) =>
        observed[2] = IF AUTH_TOKEN \in DOMAIN env THEN env[AUTH_TOKEN] ELSE FileToken

C15_EnvTokenFirst ==
    (observed # <<>> /\ observed[1] = <<"get_auth_token">>) =>
        observed[2] = IF AUTH_TOKEN \in DOMAIN env /\ env[AUTH_TOKEN] # Str(<<>>)
                      THEN env[AUTH_TOKEN] ELSE FileToken

\* both are set, to different tokens: the one of the environment is returned
C15_Witness ==
    /\ observed = <<<<"get_auth_token">>, Str(TokEnv)>>
    /\ getenv(env, AUTH_TOKEN) = Str(TokEnv)
    /\ FileToken = Str(TokFile)

-----------------------------------------------------------------------------
(* Config.reload on a settings file and an environment that do not change *)

VarA == <<"A">>
VarB == <<"B">>
VarU == <<"U">>

\* os.environ: both set, A set to a text that is itself a placeholder, A set to
\* the empty string, none set; U is never set
ReloadEnvs ==
    { [n \in {VarA, VarB} |-> IF n = VarA THEN Str(<<"v">>) ELSE Str(<<"w">>)],
      [n \in {VarA, VarB} |-> IF n = VarA THEN Placeholder(VarB) ELSE Str(<<"w">>)],
      [n \in {VarA} |-> Str(<<>>)],
      <<>> }

\* values of the file: a plain string, ${A}, ${U}, a string with ${A} inside, a
\* list of placeholders, a number
ReloadValues ==
    { Str(<<"m">>), Placeholder(VarA), Placeholder(VarU),
      Str(<<"x">> \o Placeholder(VarA)[2]),
      <<"list", <<Placeholder(VarA), Placeholder(VarB)>>>>,
      IntV(0) }

ReloadFiles ==
    { <<"ok", Settings(IntV(8000), name, BoolV(TRUE), token)>> :
        name \in ReloadValues, token \in ReloadValues }

InitReload ==
    /\ env \in ReloadEnvs
    /\ file \in ReloadFiles
    /\ _config = ConfigInit(file, env)
    /\ warned = substitute_warnings(_load_config(file), env)
    /\ observed = <<>>
    /\ reloadPc = "idle"
    /\ startPc = "serving"
    /\ report = NoReport
    /\ discoverPc = <<>>
    /\ modules = <<>>
    /\ registry = <<>>
    /\ middleware = <<>>
    /\ requests = [r \in RequestIds |-> IdleRequest]
    /\ log = [r \in RequestIds |-> <<>>]
    /\ failure = "none"
    /\ toolCall = <<>>

NextReload ==
    \/ ReloadLoad
    \/ ReloadSubstitute
    \/ ConfigGet

SpecReload == InitReload /\ [][NextReload]_vars

-----------------------------------------------------------------------------
(* C16: reload round trip.  With the settings file and the environment       *)
(* unchanged, get(p, d) after reload() returns what get(p, d) returned       *)
(* before it, for every path p and default d.                                *)

\* the step that completes a reload: the value read before the reload is the
\* value a read returns now
C16_ReloadRoundTrip ==
    [][(reloadPc = "loaded" /\ reloadPc' = "idle" /\ observed # <<>>) =>
            get(_config', observed[1], observed[3]) = observed[2]]_vars

\* a value that came from the environment was read, and a reload has loaded
\* the file anew and is about to substitute
C16_Witness ==
    /\ reloadPc = "loaded"
    /\ observed # <<>>
    /\ observed[2] = Str(<<"v">>)
    /\ get(_config, observed[1], observed[3]) = Placeholder(VarA)

-----------------------------------------------------------------------------
(* C17: in the loaded tree every ${NAME} placeholder whose variable is set   *)
(* has been replaced by the variable's value, once (a value that is itself a *)
(* placeholder is not expanded again); every placeholder whose variable is   *)
(* unset is left as written, with a warning and without failing the load;    *)
(* every other node is unchanged.                                            *)

\* a string node of the form ${NAME}
IsPlaceholder(v) ==
    /\ v[1] = "str"
    /\ Len(v[2]) >= 3
    /\ v[2][1] = "$" /\ v[2][2] = "{" /\ v[2][Len(v[2])] = "}"
NameOf(v) == [i \in 1..Len(v[2]) - 3 |-> v[2][i + 2]]

\* node by node: cfg is raw with its placeholders replaced once
RECURSIVE ResolvedOnce(_, _)
ResolvedOnce(raw, cfg) ==
    IF raw[1] = "dict" THEN
        /\ cfg[1] = "dict" /\ DOMAIN cfg[2] = DOMAIN raw[2]
        /\ \A k \in DOMAIN raw[2] : ResolvedOnce(raw[2][k], cfg[2][k])
    ELSE IF raw[1] = "list" THEN
        /\ cfg[1] = "list" /\ Len(cfg[2]) = Len(raw[2])
        /\ \A i \in 1..Len(raw[2]) : ResolvedOnce(raw[2][i], cfg[2][i])
    ELSE IF IsPlaceholder(raw) /\ NameOf(raw) \in DOMAIN env THEN cfg = env[NameOf(raw)]
    ELSE cfg = raw

\* the names of the placeholders of the tree whose variable is unset
RECURSIVE UnsetNames(_)
UnsetNames(raw) ==
    IF raw[1] = "dict" THEN UNION {UnsetNames(raw[2][k]) : k \in DOMAIN raw[2]}
    ELSE IF raw[1] = "list" THEN UNION {UnsetNames(raw[2][i]) : i \in 1..Len(raw[2])}
    ELSE IF IsPlaceholder(raw) /\ NameOf(raw) \notin DOMAIN env THEN {NameOf(raw)}
    ELSE {}

C17_SubstitutedOnce ==
    reloadPc = "idle" =>
        /\ ResolvedOnce(_load_config(file), _config)
        /\ warned = UnsetNames(_load_config(file))
        /\ failure = "none"

\* ${A} was replaced by A's value, which is the text ${B} and stays so although
\* B is set; ${U} is left as written and U was warned about
C17_Witness ==
    /\ reloadPc = "idle"
    /\ getenv(env, VarA) = Placeholder(VarB)
    /\ getenv(env, VarB) = Str(<<"w">>)
    /\ _load_config(file)[2]["mcp"][2]["name"] = Placeholder(VarA)
    /\ _config[2]["mcp"][2]["name"] = Placeholder(VarB)
    /\ get(_config, <<"security", "authentication", "bearer_token">>, None)
            = Placeholder(VarU)
    /\ warned = {VarU}

-----------------------------------------------------------------------------
(* C18: the request-logging stage never swallows an exception.  When the     *)
(* inner chain raises for a request on a logged path, the stage logs the     *)
(* failure with the request's correlation ID and raises to the outer stage,  *)
(* so that the caller receives the framework's 500, not a response of the    *)
(* chain.                                                                    *)

\* the step in which the logging stage handles the exception of request r
C18_Reraise ==
    \A r \in RequestIds :
        (/\ At(r, "logging", "raise")
         /\ requests[r].path \notin LogSkipPaths
         /\ requests'[r] # requests[r]) =>
            /\ log'[r] = Append(log[r], LogLine(requests[r].cid[2], "error", "exception",
                                                requests[r].path))
            /\ requests'[r].dir = "raise"
            /\ requests'[r].pos = requests[r].pos - 1
            /\ requests'[r].resp = NoResponse

\* what the caller receives when the handler raised
C18_Answer ==
    \A r \in RequestIds :
        (requests[r].pc = "sent" /\ StageEvents(r, "router") = <<<<"router", "exception">>>>) =>
            /\ StageEvents(r, "logging") = <<<<"logging", "request">>, <<"logging", "exception">>>>
            /\ requests[r].resp = Response(500, "Internal Server Error")

C18_NeverSwallows == []C18_Answer /\ [][C18_Reraise]_vars

\* a request whose handler raised: the logging stage logged the exception with
\* the correlation ID, and the caller was sent the 500
C18_Witness ==
    \E r \in RequestIds :
        /\ requests[r].pc = "sent"
        /\ requests[r].resp.status = 500
        /\ StageEvents(r, "logging") = <<<<"logging", "request">>, <<"logging", "exception">>>>
        /\ \E i \in 1..Len(log[r]) :
             log[r][i] = LogLine(requests[r].cid[2], "error", "exception", requests[r].path)

-----------------------------------------------------------------------------
(* server/tools/example_tool.py: the echo tool *)

MinRepeat == 1
MaxRepeat == 10
DefaultRepeat == 1

\* the texts echo returns instead of raising
ErrEmpty ==
    <<"E", "r", "r", "o", "r", ":", " ", "m", "e", "s", "s", "a", "g", "e",
      " ", "c", "a", "n", "n", "o", "t", " ", "b", "e", " ", "e", "m", "p",
      "t", "y">>
ErrNotInteger ==
    <<"E", "r", "r", "o", "r", ":", " ", "r", "e", "p", "e", "a", "t", " ",
      "m", "u", "s", "t", " ", "b", "e", " ", "a", "n", " ", "i", "n", "t",
      "e", "g", "e", "r", ",", " ", "g", "o", "t", " ">>
ErrAtLeast ==
    <<"E", "r", "r", "o", "r", ":", " ", "r", "e", "p", "e", "a", "t", " ",
      "m", "u", "s", "t", " ", "b", "e", " ", "a", "t", " ", "l", "e", "a",
      "s", "t", " ", "1">>
\* not an f-string: the braces are returned as written
ErrExceed ==
    <<"E", "r", "r", "o", "r", ":", " ", "r", "e", "p", "e", "a", "t", " ",
      "c", "a", "n", "n", "o", "t", " ", "e", "x", "c", "e", "e", "d", " ",
      "1", "0", " ", "(", "g", "o", "t", " ", "{", "r", "e", "p", "e", "a",
      "t", "}", ")">>
ErrUnexpected ==
    <<"E", "r", "r", "o", "r", ":", " ", "A", "n", " ", "u", "n", "e", "x",
      "p", "e", "c", "t", "e", "d", " ", "e", "r", "r", "o", "r", " ", "o",
      "c", "c", "u", "r", "r", "e", "d", ".", " ", "P", "l", "e", "a", "s",
      "e", " ", "c", "o", "n", "t", "a", "c", "t", " ", "s", "u", "p", "p",
      "o", "r", "t", ".">>

\* type(v).__name__
TypeName(v) ==
    CASE v[1] = "none" -> <<"N", "o", "n", "e", "T", "y", "p", "e">>
      [] v[1] = "str" -> <<"s", "t", "r">>
      [] v[1] = "int" -> <<"i", "n", "t">>
      [] v[1] = "bool" -> <<"b", "o", "o", "l">>
      [] v[1] = "list" -> <<"l", "i", "s", "t">>
      [] v[1] = "dict" -> <<"d", "i", "c", "t">>

\* sep.join([item] * n), n >= 1
RECURSIVE join_copies(_, _, _)
join_copies(sep, item, n) ==
    IF n <= 1 THEN item ELSE item \o sep \o join_copies(sep, item, n - 1)

\* mutant: the copies are joined without a separator
echo_concat(message, repeat) ==
    IF ~Truthy(message) THEN Str(ErrEmpty)
    ELSE IF ~IsInstanceInt(repeat) THEN Str(ErrNotInteger \o TypeName(repeat))
    ELSE IF IntValue(repeat) < MinRepeat THEN Str(ErrAtLeast)
    ELSE IF IntValue(repeat) > MaxRepeat THEN Str(ErrExceed)
    ELSE IF ~IsStr(message) THEN Str(ErrUnexpected)
    ELSE Str(join_copies(<<>>, message[2], IntValue(repeat)))

\* mutant: a repeat of 0 is taken for the default
echo_zero_default(message, repeat) ==
    IF ~Truthy(message) THEN Str(ErrEmpty)
    ELSE IF ~IsInstanceInt(repeat) THEN Str(ErrNotInteger \o TypeName(repeat))
    ELSE IF IntValue(repeat) = 0 /\ IsStr(message) THEN message
    ELSE IF IntValue(repeat) < MinRepeat THEN Str(ErrAtLeast)
    ELSE IF IntValue(repeat) > MaxRepeat THEN Str(ErrExceed)
    ELSE IF ~IsStr(message) THEN Str(ErrUnexpected)
    ELSE Str(join_copies(<<"\n">>, message[2], IntValue(repeat)))

\* mutant: repeat is checked before the message
echo_repeat_first(message, repeat) ==
    IF ~IsInstanceInt(repeat) THEN Str(ErrNotInteger \o TypeName(repeat))
    ELSE IF IntValue(repeat) < MinRepeat THEN Str(ErrAtLeast)
    ELSE IF IntValue(repeat) > MaxRepeat THEN Str(ErrExceed)
    ELSE IF ~Truthy(message) THEN Str(ErrEmpty)
    ELSE IF ~IsStr(message) THEN Str(ErrUnexpected)
    ELSE Str(join_copies(<<"\n">>, message[2], IntValue(repeat)))

\* echo(message, repeat): "\n".join of a message that is not a string raises
\* TypeError, which the `except Exception` answers with the last text
echo(message, repeat) ==
    IF ~Truthy(message) THEN Str(ErrEmpty)
    ELSE IF ~IsInstanceInt(repeat) THEN Str(ErrNotInteger \o TypeName(repeat))
    ELSE IF IntValue(repeat) < MinRepeat THEN Str(ErrAtLeast)
    ELSE IF IntValue(repeat) > MaxRepeat THEN Str(ErrExceed)
    ELSE IF ~IsStr(message) THEN Str(ErrUnexpected)
    ELSE Str(join_copies(<<"\n">>, message[2], IntValue(repeat)))

\* the arguments of the calls
EchoMessages ==
    { Str(<<>>), Str(<<"H", "i">>), Str(<<"X">>), Str(<<"a", "\n", "b">>), IntV(5), None }
EchoRepeats ==
    {IntV(n) : n \in (-1..11) \cup {15}}
        \cup {Str(<<"x">>), BoolV(TRUE), BoolV(FALSE), None}

\* toolCall: <<"called", message, repeat, given>>, then
\* <<"returned", message, repeat, given, result>>; given tells whether the
\* caller passed repeat
CallUnchanged == UNCHANGED <<env, file, _config, reloadPc, observed, middleware, requests,
                             log, modules, discoverPc, registry, failure, startPc, report,
                             warned>>

\* echo is called: a repeat that is not passed takes the default of the signature
EchoCall ==
    /\ toolCall = <<>>
    /\ \E message \in EchoMessages :
         \/ \E repeat \in EchoRepeats : toolCall' = <<"called", message, repeat, TRUE>>
         \/ toolCall' = <<"called", message, IntV(DefaultRepeat), FALSE>>
    /\ CallUnchanged

EchoReturn ==
    /\ toolCall # <<>>
    /\ toolCall[1] = "called"
    /\ toolCall' = <<"returned", toolCall[2], toolCall[3], toolCall[4],
                     echo(toolCall[2], toolCall[3])>>
    /\ CallUnchanged

InitEcho ==
    /\ toolCall = <<>>
    /\ env = <<>>
    /\ file = <<"ok", Tree(BoolV(FALSE), None)>>
    /\ _config = ConfigInit(file, env)
    /\ warned = substitute_warnings(_load_config(file), env)
    /\ observed = <<>>
    /\ reloadPc = "idle"
    /\ startPc = "serving"
    /\ report = NoReport
    /\ discoverPc = <<>>
    /\ modules = <<>>
    /\ registry = <<>>
    /\ middleware = <<>>
    /\ requests = [r \in RequestIds |-> IdleRequest]
    /\ log = [r \in RequestIds |-> <<>>]
    /\ failure = "none"

NextEcho ==
    \/ EchoCall
    \/ EchoReturn

SpecEcho == InitEcho /\ [][NextEcho]_vars

-----------------------------------------------------------------------------
(* C19: echo(message, repeat).  For every non-empty message and every        *)
(* integer repeat from 1 to 10 (1 when repeat is not passed), the result is  *)
(* the message repeat times, the copies separated by single newline          *)
(* characters: ("Hi", 3) gives "Hi\nHi\nHi", and repeat = 10 gives 10 lines. *)

Returned == toolCall # <<>> /\ toolCall[1] = "returned"

\* the text made of n copies of msg with one newline between two copies,
\* character by character
Repeated(msg, n) ==
    [j \in 1..(n * Len(msg) + n - 1) |->
        IF j % (Len(msg) + 1) = 0 THEN "\n" ELSE msg[j % (Len(msg) + 1)]]

C19_EchoRepeats ==
    (/\ Returned
     /\ IsStr(toolCall[2]) /\ toolCall[2][2] # <<>>
     /\ toolCall[3][1] = "int" /\ toolCall[3][2] \in 1..10) =>
        /\ toolCall[5] = Str(Repeated(toolCall[2][2], toolCall[3][2]))
        /\ ~toolCall[4] => toolCall[5] = toolCall[2]

\* echo("Hi", 3) has returned "Hi\nHi\nHi"
C19_Witness ==
    /\ Returned
    /\ toolCall[2] = Str(<<"H", "i">>)
    /\ toolCall[3] = IntV(3)
    /\ toolCall[5] = Str(<<"H", "i", "\n", "H", "i", "\n", "H", "i">>)

-----------------------------------------------------------------------------
(* C20: echo called with repeat = 0, or without repeat, performs one         *)
(* repetition: it returns the message once, and no error text.  As stated it *)
(* fails for repeat = 0, which is answered "Error: repeat must be at least   *)
(* 1".  What holds: without repeat the message is returned once; with        *)
(* repeat = 0 that error text is returned.                                   *)

C20_AsClaimed ==
    (/\ Returned
     /\ IsStr(toolCall[2]) /\ toolCall[2][2] # <<>>
     /\ toolCall[3] = IntV(0) \/ ~toolCall[4]) =>
        toolCall[5] = toolCall[2]

C20_ZeroRejected ==
    (Returned /\ IsStr(toolCall[2]) /\ toolCall[2][2] # <<>>) =>
        /\ ~toolCall[4] => toolCall[5] = toolCall[2]
        /\ toolCall[3] = IntV(0) => toolCall[5] = Str(ErrAtLeast)

\* echo("Hi", 0) has returned the error text
C20_Witness ==
    /\ Returned
    /\ toolCall[2] = Str(<<"H", "i">>)
    /\ toolCall[3] = IntV(0) /\ toolCall[4]
    /\ toolCall[5] = Str(ErrAtLeast)

-----------------------------------------------------------------------------
(* C21: echo never raises on invalid input: it returns a text that begins    *)
(* with "Error", the checks applied in this order: an empty message gives an *)
(* error mentioning "empty"; a repeat that is not an integer, one mentioning *)
(* "integer"; a repeat below 1 (0 included), one containing "at least 1"; a  *)
(* repeat above 10, one containing "cannot exceed 10".                       *)

\* the text holds the words
Contains(text, words) ==
    \E i \in 0..(Len(text) - Len(words)) : SubSeq(text, i + 1, i + Len(words)) = words

\* the first check of the claim that the arguments fail, 0 when they fail none;
\* a Python bool is an integer
FirstFailedCheck(message, repeat) ==
    IF message \in {None, Str(<<>>)} THEN 1
    ELSE IF repeat[1] \notin {"int", "bool"} THEN 2
    ELSE IF IntValue(repeat) < 1 THEN 3
    ELSE IF IntValue(repeat) > 10 THEN 4
    ELSE 0

WordsOfCheck ==
    << <<"e", "m", "p", "t", "y">>,
       <<"i", "n", "t", "e", "g", "e", "r">>,
       <<"a", "t", " ", "l", "e", "a", "s", "t", " ", "1">>,
       <<"c", "a", "n", "n", "o", "t", " ", "e", "x", "c", "e", "e", "d", " ", "1", "0">> >>

C21_ErrorsInOrder ==
    Returned =>
        /\ IsStr(toolCall[5])
        /\ FirstFailedCheck(toolCall[2], toolCall[3]) # 0 =>
              /\ startswith(toolCall[5][2], <<"E", "r", "r", "o", "r">>)
              /\ Contains(toolCall[5][2],
                          WordsOfCheck[FirstFailedCheck(toolCall[2], toolCall[3])])
              /\ \A c \in 1..4 :
                    c # FirstFailedCheck(toolCall[2], toolCall[3]) =>
                        ~Contains(toolCall[5][2], WordsOfCheck[c])

\* an empty message with a repeat of 15: the error is the one of the message
C21_Witness ==
    /\ Returned
    /\ toolCall[2] = Str(<<>>)
    /\ toolCall[3] = IntV(15)
    /\ toolCall[5] = Str(ErrEmpty)

-----------------------------------------------------------------------------
(* The pipeline with requests handled at the same time *)

\* how many requests are in flight together
MaxConcurrent == 2

ConcurrentIds == 1..MaxConcurrent

InitConcurrent ==
    /\ env = <<>>
    /\ file = <<"ok", Tree(BoolV(TRUE), Str(TokFile))>>
    /\ _config = ConfigInit(file, env)
    /\ warned = substitute_warnings(_load_config(file), env)
    /\ middleware = BuildMiddleware(_config, env)
    /\ requests = [r \in ConcurrentIds |-> IdleRequest]
    /\ log = [r \in ConcurrentIds |-> <<>>]
    /\ reloadPc = "idle"
    /\ observed = <<>>
    /\ modules = <<>>
    /\ discoverPc = <<>>
    /\ registry = <<>>
    /\ failure = "none"
    /\ startPc = "serving"
    /\ report = NoReport
    /\ toolCall = <<>>

NextConcurrent ==
    \E r \in ConcurrentIds :
        \/ Arrive(r)
        \/ CorsDispatch(r)
        \/ CorsReturn(r)
        \/ HostnameDispatch(r)
        \/ HostnameReturn(r)
        \/ LoggingDispatch(r)
        \/ LoggingReturn(r)
        \/ LoggingExcept(r)
        \/ AuthDispatch(r)
        \/ AuthReturn(r)
        \/ Route(r)
        \/ Propagate(r)
        \/ Send(r)
        \/ Discard(r)

SpecConcurrent == InitConcurrent /\ [][NextConcurrent]_vars

-----------------------------------------------------------------------------
(* C22: request contexts are isolated.  In any interleaving of requests      *)
(* handled at the same time, the X-Correlation-ID of a response is the ID    *)
(* generated for that request at the start of the logging stage, the start   *)
(* and the completion log lines of the request carry that ID, and no         *)
(* request's step reads or overwrites the context of another.                *)

\* the values of a header of the response
HeaderValues(resp, name) == {Str(h[2]) : h \in {x \in resp.headers : x[1] = name}}

C22_OwnId ==
    \A r \in ConcurrentIds :
        /\ \A i \in 1..Len(log[r]) : Str(log[r][i].cid) = requests[r].cid
        /\ HeaderValues(requests[r].resp, "X-Correlation-ID") \subseteq {requests[r].cid}
        /\ (/\ requests[r].pc = "sent"
            /\ requests[r].path \notin LogSkipPaths
            /\ StageEvents(r, "logging")
                    = <<<<"logging", "request">>, <<"logging", "response">>>>) =>
               /\ HeaderValues(requests[r].resp, "X-Correlation-ID") = {requests[r].cid}
               /\ {log[r][i].event : i \in 1..Len(log[r])} = {"start", "complete"}

C22_Frame ==
    \A r \in ConcurrentIds :
        /\ (requests'[r] # requests[r]) =>
              \A q \in ConcurrentIds \ {r} :
                    requests'[q] = requests[q] /\ log'[q] = log[q]
        /\ (requests[r].cid # None /\ requests'[r].pc # "idle") =>
              requests'[r].cid = requests[r].cid

C22_ContextsIsolated == []C22_OwnId /\ [][C22_Frame]_vars

\* two requests in flight with different IDs, the first answered with its own
C22_Witness ==
    \E r, q \in ConcurrentIds :
        /\ r # q
        /\ requests[r].pc = "sent"
        /\ requests[q].pc = "run"
        /\ requests[q].cid # None
        /\ requests[q].cid # requests[r].cid
        /\ HeaderValues(requests[r].resp, "X-Correlation-ID") = {requests[r].cid}

-----------------------------------------------------------------------------
(* Start-up over the ports an operator can configure *)

PortValues ==
    { IntV(8000), IntV(1), IntV(65535), IntV(0), IntV(70000), Str(<<"8", "0">>),
      BoolV(TRUE), None }
PortEnvs ==
    { None, Str(<<>>), Str(<<"8", "0">>), Str(<<" ", "8", "0", " ">>),
      Str(<<"8", "_", "0">>), Str(<<"6", "5", "5", "3", "5">>), Str(<<"0">>),
      Str(<<"a", "b">>), Str(<<"7", "0", "0", "0", "0">>) }

InitPort ==
    /\ \E port \in PortValues :
         file = <<"ok", Settings(port, Str(<<"m">>), BoolV(FALSE), None)>>
    /\ \E p \in PortEnvs :
         env = IF p = None THEN <<>> ELSE [n \in {MCP_PORT} |-> p]
    /\ _config = ConfigInit(file, env)
    /\ warned = substitute_warnings(_load_config(file), env)
    /\ startPc = "validate"
    /\ report = NoReport
    /\ discoverPc = [pkg |-> 1, mod |-> 1, loaded |-> {}, errors |-> {}]
    /\ modules = [k \in 1..3 |-> <<>>]
    /\ registry = <<>>
    /\ middleware = <<>>
    /\ requests = [r \in RequestIds |-> IdleRequest]
    /\ log = [r \in RequestIds |-> <<>>]
    /\ reloadPc = "idle"
    /\ observed = <<>>
    /\ failure = "none"
    /\ toolCall = <<>>

NextPort ==
    \/ StartValidate
    \/ DiscoverReturn
    \/ Listen

SpecPort == InitPort /\ [][NextPort]_vars

-----------------------------------------------------------------------------
(* C23: whenever validate_config returns without exiting, the port computed  *)
(* afterwards as int(MCP_PORT if set, else server.port, else 8000) is        *)
(* computed without error and lies in 1..65535, whatever server.port and     *)
(* MCP_PORT are.  Violated: validate_config skips an MCP_PORT that is set to *)
(* the empty string, and int("") raises ValueError.                          *)

C23_PortComputed ==
    (ValidationPasses(_config, env) /\ startPc \notin {"validate", "discover"}) =>
        /\ startPc = "serving"
        /\ failure = "none"
        /\ listen_port(_config, env)[1] = "ok"
        /\ listen_port(_config, env)[2] \in MinPort..MaxPort

-----------------------------------------------------------------------------
(* C24: a failed reload leaves the configuration unchanged.  When reload()   *)
(* fails because the file is absent or malformed, the error is raised to the *)
(* caller and get() returns afterwards what it returned before the attempt:  *)
(* the tree loaded earlier is still in place.                                *)

\* the step of a reload() whose _load_config raises: the file is not being
\* edited and no reader is reading
C24_FailedReloadStep ==
    (/\ reloadPc = "idle"
     /\ LoadRaises(file)
     /\ file' = file /\ observed' = observed
     /\ failure' # failure) =>
        /\ failure' = LoadException(file)
        /\ reloadPc' = "idle"
        /\ _config' = _config
        /\ \A key \in Keys : get(_config', key, None) = get(_config, key, None)

C24_FailedReloadKeepsTree == [][C24_FailedReloadStep]_vars

\* the file is gone or broken, a reload has raised, and the tree read before
\* is the one still read
C24_Witness ==
    /\ reloadPc = "idle"
    /\ LoadRaises(file)
    /\ failure = LoadException(file)
    /\ _config[1] = "dict"
    /\ observed # <<>>
    /\ observed[2] # None
    /\ observed[2] = get(_config, observed[1], None)

-----------------------------------------------------------------------------
(* The server while the settings file is edited and reloaded: the flag and   *)
(* the token of the file both change                                         *)

AuthFiles ==
    { <<"ok", Tree(BoolV(TRUE), Str(TokFile))>>,
      <<"ok", Tree(BoolV(TRUE), Str(TokEnv))>>,
      <<"ok", Tree(BoolV(FALSE), None)>> }

InitAuthReload ==
    /\ env = <<>>
    /\ file \in AuthFiles
    /\ _config = ConfigInit(file, env)
    /\ warned = substitute_warnings(_load_config(file), env)
    /\ ValidationPasses(_config, env)
    /\ middleware = BuildMiddleware(_config, env)
    /\ requests = [r \in RequestIds |-> IdleRequest]
    /\ log = [r \in RequestIds |-> <<>>]
    /\ reloadPc = "idle"
    /\ observed = <<>>
    /\ modules = <<>>
    /\ discoverPc = <<>>
    /\ registry = <<>>
    /\ failure = "none"
    /\ startPc = "serving"
    /\ report = NoReport
    /\ toolCall = <<>>

NextAuthReload ==
    \/ EditFile(AuthFiles)
    \/ ReloadLoad
    \/ ReloadSubstitute
    \/ \E r \in RequestIds :
        \/ Arrive(r)
        \/ CorsDispatch(r)
        \/ CorsReturn(r)
        \/ HostnameDispatch(r)
        \/ HostnameReturn(r)
        \/ LoggingDispatch(r)
        \/ LoggingReturn(r)
        \/ LoggingExcept(r)
        \/ AuthDispatch(r)
        \/ AuthReturn(r)
        \/ Route(r)
        \/ Propagate(r)
        \/ Send(r)
        \/ Discard(r)

SpecAuthReload == InitAuthReload /\ [][NextAuthReload]_vars

-----------------------------------------------------------------------------
(* C25: whether authentication is enforced is fixed by what the flag reads   *)
(* when the application is built.  Disabled then, the authentication stage   *)
(* is not installed, and no request is ever answered 401 or 403 by it, even  *)
(* when the reloaded configuration reads enabled later; enabled then, the    *)
(* stage reads the flag and the expected token anew for every request.       *)

\* the stack is never rebuilt, and the stage decides on the configuration as
\* it is when the request passes
C25_Steps ==
    /\ middleware' = middleware
    /\ \A r \in RequestIds :
          AuthStep(r) =>
              StepOutcome(r) = authenticate(requests[r].path, requests[r].auth, _config, env)

C25_NoStageNoRejection ==
    ~AuthInstalled => \A r \in RequestIds : requests[r].resp.status \notin {401, 403}

C25_FixedAtBuild ==
    /\ (AuthInstalled <=> AuthEnabledNow)
    /\ []C25_NoStageNoRejection
    /\ [][C25_Steps]_vars

\* started with the flag disabled, the file now reads enabled: a request to
\* /mcp without a token has been answered by the handler
C25_Witness ==
    /\ ~AuthInstalled
    /\ AuthEnabledNow
    /\ \E r \in RequestIds :
          /\ requests[r].pc = "sent"
          /\ requests[r].path = "/mcp"
          /\ requests[r].auth = None
          /\ requests[r].resp.status = 200

=============================================================================
